---------------------------- MODULE Spec2Model ----------------------------
(***************************************************************************)
(* Model of the feedback segmenter and renderer of the results page        *)
(* (components/hero-section.tsx).  A JavaScript string is a sequence of    *)
(* one-character strings; a regular expression is an operator that scans   *)
(* such a sequence the way the engine does (leftmost match, greedy         *)
(* quantifiers).                                                           *)
(***************************************************************************)
EXTENDS Integers, Sequences, FiniteSets, TLC

VARIABLES
    pc,      \* position of the modelled call sequence
    src,     \* the text argument of a pure text function
    doc,     \* the sections src was composed from (spec-level bookkeeping)
    ret,     \* the string a text function returned
    ret2,    \* the string a second application returned
    arg,     \* the payload argument of a direct call of pickRfds
    sp,      \* the pair splitCombinedBlob or pickRfds returned
    stored,  \* what the effect found under "vocius_last_result"
    json,    \* ResultsPage state `json`
    page,    \* what ResultsPage computed on its last render
    lastIndex, \* WRITTEN_ANCHOR.lastIndex, the one state the module keeps
    hist,    \* spec-level bookkeeping: each payload rendered so far with
             \* the page of its first render
    calls,   \* spec-level bookkeeping: how many renders have run
    req,     \* /api/analyze: the request, its `type` parameter and its body
    env,     \* /api/analyze: process.env.BACKEND_URL
    locals,  \* /api/analyze: the local variables of POST
    res,     \* /api/analyze: the response POST returned
    step,        \* PlaygroundPage state `step`
    file,        \* PlaygroundPage and AnalyzeForm state `file`
    apiKeys,     \* PlaygroundPage and AnalyzeForm state `apiKeys`
    job,         \* PlaygroundPage state `job`
    progress,    \* PlaygroundPage state `progress`, in tenths
    logs,        \* PlaygroundPage and AnalyzeForm state `logs`, without
                 \* the time stamps
    lastResult,  \* PlaygroundPage state `lastResult`
    tickerRef,   \* PlaygroundPage tickerRef.current
    stageTimers, \* PlaygroundPage stageTimers.current
    intervals,   \* window: the ids of the intervals that are set
    timeouts,    \* window: the timeouts that are set and have not fired
    storage,     \* window: localStorage["vocius_last_result"]
    inflight,    \* window: the postForm calls that have not settled
    tabs,        \* window: the tabs window.open has opened
    isAnalyzing,      \* AnalyzeForm state `isAnalyzing`
    judgingProgress,  \* AnalyzeForm state `judgingProgress`
    deliveryProgress, \* AnalyzeForm state `deliveryProgress`
    sims,        \* AnalyzeForm: the calls of simulateAnalysis, each with
                 \* the loop it is in and its loop variable i
    route        \* AnalyzeForm: the route the router shows

proxyVars == <<req, env, locals, res>>

playVars == <<step, file, apiKeys, job, progress, logs, lastResult,
              tickerRef, stageTimers, intervals, timeouts, storage,
              inflight, tabs>>

formVars == <<isAnalyzing, judgingProgress, deliveryProgress, sims, route>>

vars == <<pc, src, doc, ret, ret2, arg, sp, stored, json, page,
          lastIndex, hist, calls, proxyVars, playVars, formVars>>

-----------------------------------------------------------------------------
(* Characters and literals *)

SP == " "
TAB == "\t"
NL == "\n"
CR == "\r"

\* the characters JavaScript's \s and String.prototype.trim treat as white
\* space, among the characters the model's texts are made of
WhiteSpace == {SP, TAB, NL, CR}

Digits == {"0", "1", "2", "3", "4", "5", "6", "7", "8", "9"}

ToLower ==
    ("A" :> "a") @@ ("B" :> "b") @@ ("C" :> "c") @@ ("D" :> "d") @@
    ("E" :> "e") @@ ("F" :> "f") @@ ("G" :> "g") @@ ("H" :> "h") @@
    ("I" :> "i") @@ ("J" :> "j") @@ ("K" :> "k") @@ ("L" :> "l") @@
    ("M" :> "m") @@ ("N" :> "n") @@ ("O" :> "o") @@ ("P" :> "p") @@
    ("Q" :> "q") @@ ("R" :> "r") @@ ("S" :> "s") @@ ("T" :> "t") @@
    ("U" :> "u") @@ ("V" :> "v") @@ ("W" :> "w") @@ ("X" :> "x") @@
    ("Y" :> "y") @@ ("Z" :> "z")

\* the case folding of the regular expressions' i flag
Lower(c) == IF c \in DOMAIN ToLower THEN ToLower[c] ELSE c

L_written == <<"w","r","i","t","t","e","n">>
L_verbal == <<"v","e","r","b","a","l">>
L_rfd == <<"r","f","d">>
L_and == <<"a","n","d">>
L_speech == <<"s","p","e","e","c","h">>
L_by == <<"b","y">>
L_flow == <<"f","l","o","w">>
L_analysis == <<"a","n","a","l","y","s","i","s">>
L_aff == <<"a","f","f">>
L_neg == <<"n","e","g">>
L_constructive == <<"c","o","n","s","t","r","u","c","t","i","v","e">>
L_rebuttal == <<"r","e","b","u","t","t","a","l">>
L_summary == <<"s","u","m","m","a","r","y">>
L_final == <<"f","i","n","a","l">>
L_focus == <<"f","o","c","u","s">>
L_crossfire == <<"c","r","o","s","s","f","i","r","e">>
L_grand == <<"g","r","a","n","d">>

-----------------------------------------------------------------------------
(* String primitives.  Positions are 1-based; a position of 0 means "no     *)
(* match" (JavaScript's -1).                                                *)

Drop(s, n) == SubSeq(s, n + 1, Len(s))
Take(s, n) == SubSeq(s, 1, n)

\* number of leading characters of s that belong to S: a greedy S*
RECURSIVE RunLen(_, _)
RunLen(s, S) ==
    IF Len(s) > 0 /\ s[1] \in S THEN 1 + RunLen(Tail(s), S) ELSE 0

\* position after a greedy S* starting at position i of s
SkipSet(s, i, S) == i + RunLen(Drop(s, i - 1), S)

\* the literal lit (lower case) matches s at position i, ignoring case;
\* the position after it, or 0
MatchLit(s, i, lit) ==
    IF /\ i >= 1
       /\ i + Len(lit) - 1 <= Len(s)
       /\ \A k \in 1..Len(lit) : Lower(s[i + k - 1]) = lit[k]
    THEN i + Len(lit)
    ELSE 0

\* String.prototype.trim
TrimStart(s) == Drop(s, RunLen(s, WhiteSpace))
RECURSIVE TrimEnd(_)
TrimEnd(s) ==
    IF Len(s) > 0 /\ s[Len(s)] \in WhiteSpace
    THEN TrimEnd(Take(s, Len(s) - 1))
    ELSE s
trim(s) == TrimEnd(TrimStart(s))

\* s.replaceAll(c, rep) for a one-character pattern c
RECURSIVE replaceAll(_, _, _)
replaceAll(s, c, rep) ==
    IF Len(s) = 0 THEN <<>>
    ELSE (IF s[1] = c THEN rep ELSE <<s[1]>>) \o replaceAll(Tail(s), c, rep)

\* s.indexOf(c) as a 1-based position, 0 when c does not occur
RECURSIVE indexOf(_, _)
indexOf(s, c) ==
    IF Len(s) = 0 THEN 0
    ELSE IF s[1] = c THEN 1
    ELSE LET r == indexOf(Tail(s), c) IN IF r = 0 THEN 0 ELSE r + 1

\* s.split("\n"): always at least one piece
RECURSIVE splitLines(_)
splitLines(s) ==
    LET k == indexOf(s, NL)
    IN  IF k = 0 THEN <<s>>
        ELSE <<Take(s, k - 1)>> \o splitLines(Drop(s, k))

\* pieces.join(sep)
RECURSIVE join(_, _)
join(pieces, sep) ==
    IF Len(pieces) = 0 THEN <<>>
    ELSE IF Len(pieces) = 1 THEN pieces[1]
    ELSE pieces[1] \o sep \o join(Tail(pieces), sep)

-----------------------------------------------------------------------------
(* esc, normalize *)

E_amp == <<"&","a","m","p",";">>
E_lt == <<"&","l","t",";">>
E_gt == <<"&","g","t",";">>

\* a plausible slip: '<' left unescaped
escNoLt(s) == replaceAll(replaceAll(s, "&", E_amp), ">", E_gt)

\* a plausible slip: the double quote escaped as well
escQuote(s) ==
    replaceAll(replaceAll(replaceAll(replaceAll(s, "&", E_amp), "<", E_lt),
                          ">", E_gt), "\"", <<"&","q","u","o","t",";">>)

esc(s) ==
    replaceAll(replaceAll(replaceAll(s, "&", E_amp), "<", E_lt), ">", E_gt)

\* s.replace(/\r/g, "")
removeCR(s) == SelectSeq(s, LAMBDA c : c # CR)

\* s.replace(/\*\*/g, "")
RECURSIVE removeBold(_)
removeBold(s) ==
    IF Len(s) = 0 THEN <<>>
    ELSE IF Len(s) >= 2 /\ s[1] = "*" /\ s[2] = "*" THEN removeBold(Drop(s, 2))
    ELSE <<s[1]>> \o removeBold(Tail(s))

\* a plausible slip: / +\n/, tabs before a newline left in place
RECURSIVE stripTrailingSpaces(_)
stripTrailingSpaces(s) ==
    IF Len(s) = 0 THEN <<>>
    ELSE LET k == RunLen(s, {SP})
         IN  IF k >= 1 /\ k < Len(s) /\ s[k + 1] = NL
             THEN <<NL>> \o stripTrailingSpaces(Drop(s, k + 1))
             ELSE <<s[1]>> \o stripTrailingSpaces(Tail(s))

\* s.replace(/[ \t]+\n/g, "\n")
RECURSIVE stripTrailing(_)
stripTrailing(s) ==
    IF Len(s) = 0 THEN <<>>
    ELSE LET k == RunLen(s, {SP, TAB})
         IN  IF k >= 1 /\ k < Len(s) /\ s[k + 1] = NL
             THEN <<NL>> \o stripTrailing(Drop(s, k + 1))
             ELSE <<s[1]>> \o stripTrailing(Tail(s))

\* s.replace(/\n{3,}/g, "\n\n")
RECURSIVE collapseBlank(_)
collapseBlank(s) ==
    IF Len(s) = 0 THEN <<>>
    ELSE LET k == RunLen(s, {NL})
         IN  IF k >= 3
             THEN <<NL, NL>> \o collapseBlank(Drop(s, k))
             ELSE <<s[1]>> \o collapseBlank(Tail(s))

\* a plausible slip: carriage returns removed last instead of first
normalizeLateCR(raw) ==
    trim(removeCR(collapseBlank(stripTrailing(removeBold(raw)))))

normalize(raw) ==
    trim(collapseBlank(stripTrailing(removeBold(removeCR(raw)))))


-----------------------------------------------------------------------------
(* The anchor patterns *)

\* F applied to the value of x: x is evaluated once, before F
With(x, F(_)) == CHOOSE r \in {F(v) : v \in {x}} : TRUE

\* position after \s*lit matched at position p, or 0; p = 0 propagates failure
After(s, p, skip, lit) ==
    With(p, LAMBDA q :
        IF q = 0 THEN 0
        ELSE With(SkipSet(s, q, skip), LAMBDA r : MatchLit(s, r, lit)))

\* position after an optional ':' at position p
OptColon(s, p) ==
    With(p, LAMBDA q : IF q <= Len(s) /\ s[q] = ":" THEN q + 1 ELSE q)

\* VERBAL_ANCHOR = /verbal\s*rfd\s*:?/i matched at position i:
\* the position after the match, or 0
matchVerbal(s, i) ==
    With(After(s, MatchLit(s, i, L_verbal), WhiteSpace, L_rfd), LAMBDA b :
        IF b = 0 THEN 0 ELSE OptColon(s, SkipSet(s, b, WhiteSpace)))

\* the optional group (?:\s*and\s*speech[-\s]*by[-\s]*speech\s*flow\s*analysis)
\* matched at position p: the position after it, or 0
matchFlowGroup(s, p) ==
    LET Dash == WhiteSpace \cup {"-"}
        p1 == After(s, p, WhiteSpace, L_and)
        p2 == After(s, p1, WhiteSpace, L_speech)
        p3 == After(s, p2, Dash, L_by)
        p4 == After(s, p3, Dash, L_speech)
        p5 == After(s, p4, WhiteSpace, L_flow)
    IN  After(s, p5, WhiteSpace, L_analysis)

\* WRITTEN_ANCHOR matched at position i: the position after the match, or 0
matchWritten(s, i) ==
    With(After(s, MatchLit(s, i, L_written), WhiteSpace, L_rfd), LAMBDA b :
        IF b = 0 THEN 0
        ELSE With(matchFlowGroup(s, b), LAMBDA g :
                 With(SkipSet(s, IF g = 0 THEN b ELSE g, WhiteSpace),
                      LAMBDA c : OptColon(s, c))))

Least(S) == CHOOSE x \in S : \A y \in S : x <= y

\* s.search(VERBAL_ANCHOR) and s.search(WRITTEN_ANCHOR), 1-based, 0 = none
searchVerbal(s) ==
    With({i \in 1..Len(s) : matchVerbal(s, i) # 0}, LAMBDA P :
        IF P = {} THEN 0 ELSE Least(P))

searchWritten(s) ==
    With({i \in 1..Len(s) : matchWritten(s, i) # 0}, LAMBDA P :
        IF P = {} THEN 0 ELSE Least(P))

\* a plausible slip: the anchors written with the g flag
AnchorFlagsGlobal == [global |-> TRUE, sticky |-> FALSE]

\* the flags of WRITTEN_ANCHOR and VERBAL_ANCHOR: /.../i, neither g nor y
AnchorFlags == [global |-> FALSE, sticky |-> FALSE]

\* RegExp.prototype.test of WRITTEN_ANCHOR on s with lastIndex li (0-based):
\* without g and y the search starts at 0 and lastIndex is left alone; with
\* g it starts at lastIndex, which becomes the end of the match, or 0
regExpTest(s, li) ==
    IF ~(AnchorFlags.global \/ AnchorFlags.sticky)
    THEN [found |-> \E i \in 1..Len(s) : matchWritten(s, i) # 0,
          lastIndex |-> li]
    ELSE With({i \in (li + 1)..Len(s) : matchWritten(s, i) # 0}, LAMBDA P :
             IF P = {} THEN [found |-> FALSE, lastIndex |-> 0]
             ELSE [found |-> TRUE,
                   lastIndex |-> matchWritten(s, Least(P)) - 1])

\* WRITTEN_ANCHOR.test(s)
testWritten(s) == regExpTest(s, lastIndex).found

\* s.replace(VERBAL_ANCHOR, ""): the pattern has no g flag, so only the
\* first match is removed
replaceVerbal(s) ==
    With(searchVerbal(s), LAMBDA i :
        IF i = 0 THEN s ELSE Take(s, i - 1) \o Drop(s, matchVerbal(s, i) - 1))

\* s.replace(WRITTEN_ANCHOR, "")
replaceWritten(s) ==
    With(searchWritten(s), LAMBDA i :
        IF i = 0 THEN s ELSE Take(s, i - 1) \o Drop(s, matchWritten(s, i) - 1))

-----------------------------------------------------------------------------
(* splitCombinedBlob *)

\* a plausible slip: the VERBAL anchor is looked at first
splitVerbalFirst(blob) ==
    With(normalize(blob), LAMBDA s :
    With(searchWritten(s), LAMBDA wMatch :
    With(searchVerbal(s), LAMBDA vMatch :
        IF vMatch # 0
        THEN [verbal |-> trim(replaceVerbal(s)), written |-> <<>>]
        ELSE IF wMatch # 0
        THEN [verbal |-> trim(replaceVerbal(Take(s, wMatch - 1))),
              written |-> trim(replaceWritten(Drop(s, wMatch - 1)))]
        ELSE [verbal |-> <<>>, written |-> s])))

\* a plausible slip: without any anchor the text is taken for the verbal part
splitFallbackVerbal(blob) ==
    With(normalize(blob), LAMBDA s :
    With(searchWritten(s), LAMBDA wMatch :
    With(searchVerbal(s), LAMBDA vMatch :
        IF wMatch # 0
        THEN [verbal |-> trim(replaceVerbal(Take(s, wMatch - 1))),
              written |-> trim(replaceWritten(Drop(s, wMatch - 1)))]
        ELSE IF vMatch # 0
        THEN [verbal |-> trim(replaceVerbal(s)), written |-> <<>>]
        ELSE [verbal |-> s, written |-> <<>>])))

splitCombinedBlob(blob) ==
    With(normalize(blob), LAMBDA s :
    With(searchWritten(s), LAMBDA wMatch :
    With(searchVerbal(s), LAMBDA vMatch :
        IF wMatch # 0
        THEN With(Take(s, wMatch - 1), LAMBDA before :
             With(trim(replaceWritten(Drop(s, wMatch - 1))), LAMBDA after :
                 [verbal |-> trim(replaceVerbal(before)), written |-> after]))
        ELSE IF vMatch # 0
        THEN [verbal |-> trim(replaceVerbal(s)), written |-> <<>>]
        ELSE [verbal |-> <<>>, written |-> s])))

-----------------------------------------------------------------------------
(* Formatting *)

T_p == <<"<","p",">">>
T_pEnd == <<"<","/","p",">">>
T_h3 ==
    <<"<","h","3"," ","c","l","a","s","s","=","\"","t","e","x","t","-","l","g"," ","f","o","n","t","-","s","e","m","i","b","o","l","d"," ","m","b","-","2","\"",">">>
T_h3End == <<"<","/","h","3",">">>
NotProvided ==
    <<"<","p",">","N","o","t"," ","p","r","o","v","i","d","e","d",".","<","/","p",">">>

\* first alternative of HEADING:
\* ^(?:Aff|Neg)\s+(?:Constructive|Rebuttal|Summary|Final\s*Focus)\s*:
headingSpeech(line) ==
    LET a == IF MatchLit(line, 1, L_aff) # 0 THEN MatchLit(line, 1, L_aff)
             ELSE MatchLit(line, 1, L_neg)
        b == IF a = 0 \/ RunLen(Drop(line, a - 1), WhiteSpace) = 0 THEN 0
             ELSE SkipSet(line, a, WhiteSpace)
        w1 == MatchLit(line, b, L_constructive)
        w2 == MatchLit(line, b, L_rebuttal)
        w3 == MatchLit(line, b, L_summary)
        w4 == After(line, MatchLit(line, b, L_final), WhiteSpace, L_focus)
        c == IF b = 0 THEN 0
             ELSE IF w1 # 0 THEN w1
             ELSE IF w2 # 0 THEN w2
             ELSE IF w3 # 0 THEN w3
             ELSE w4
    IN  After(line, c, WhiteSpace, <<":">>) # 0

\* second alternative: ^Crossfire\s*\d*\s*:
headingCrossfire(line) ==
    LET a == MatchLit(line, 1, L_crossfire)
        b == IF a = 0 THEN 0
             ELSE SkipSet(line, SkipSet(line, a, WhiteSpace), Digits)
    IN  After(line, b, WhiteSpace, <<":">>) # 0

\* third alternative: ^Grand\s*Crossfire\s*:$
headingGrand(line) ==
    LET a == After(line, MatchLit(line, 1, L_grand), WhiteSpace, L_crossfire)
    IN  After(line, a, WhiteSpace, <<":">>) = Len(line) + 1

\* HEADING.test(line)
HEADING(line) ==
    headingSpeech(line) \/ headingCrossfire(line) \/ headingGrand(line)

\* /^verbal\s*rfd\s*:$/i.test(line)
verbalLabel(line) ==
    LET a == After(line, MatchLit(line, 1, L_verbal), WhiteSpace, L_rfd)
    IN  After(line, a, WhiteSpace, <<":">>) = Len(line) + 1

\* line.replace(/:$/, "")
stripColon(line) ==
    IF Len(line) > 0 /\ line[Len(line)] = ":"
    THEN Take(line, Len(line) - 1)
    ELSE line

\* text.replace(/\s{2,}/g, " ")
RECURSIVE collapseSpaces(_)
collapseSpaces(s) ==
    IF Len(s) = 0 THEN <<>>
    ELSE LET k == RunLen(s, WhiteSpace)
         IN  IF k >= 2
             THEN <<SP>> \o collapseSpaces(Drop(s, k))
             ELSE <<s[1]>> \o collapseSpaces(Tail(s))

\* a plausible slip: the paragraph is joined but its spaces not collapsed
flushParaNoCollapse(out, para) ==
    IF Len(para) = 0 THEN out
    ELSE With(trim(join(para, <<SP>>)), LAMBDA text :
             IF Len(text) > 0
             THEN Append(out, T_p \o text \o T_pEnd)
             ELSE out)

\* flushPara: the blocks after the paragraph buffer is flushed
flushPara(out, para) ==
    IF Len(para) = 0 THEN out
    ELSE With(trim(collapseSpaces(join(para, <<SP>>))), LAMBDA text :
             IF Len(text) > 0
             THEN Append(out, T_p \o text \o T_pEnd)
             ELSE out)

\* a plausible slip: a heading does not flush the paragraph before it
RECURSIVE sectionLoopNoFlush(_, _, _)
sectionLoopNoFlush(lines, out, para) ==
    IF Len(lines) = 0 THEN flushPara(out, para)
    ELSE With(trim(lines[1]), LAMBDA line :
         With(Tail(lines), LAMBDA rest :
             IF Len(line) = 0
             THEN sectionLoopNoFlush(rest, flushPara(out, para), <<>>)
             ELSE IF HEADING(line)
             THEN sectionLoopNoFlush(rest,
                      Append(out, T_h3 \o stripColon(line) \o T_h3End), para)
             ELSE IF verbalLabel(line) \/ testWritten(line)
             THEN sectionLoopNoFlush(rest, flushPara(out, para), <<>>)
             ELSE sectionLoopNoFlush(rest, out, Append(para, line))))

\* a plausible slip: a label line is skipped without flushing the paragraph
RECURSIVE sectionLoopLabelSkipped(_, _, _)
sectionLoopLabelSkipped(lines, out, para) ==
    IF Len(lines) = 0 THEN flushPara(out, para)
    ELSE With(trim(lines[1]), LAMBDA line :
         With(Tail(lines), LAMBDA rest :
         With(flushPara(out, para), LAMBDA flushed :
             IF Len(line) = 0
             THEN sectionLoopLabelSkipped(rest, flushed, <<>>)
             ELSE IF HEADING(line)
             THEN sectionLoopLabelSkipped(rest,
                      Append(flushed, T_h3 \o stripColon(line) \o T_h3End),
                      <<>>)
             ELSE IF verbalLabel(line) \/ testWritten(line)
             THEN sectionLoopLabelSkipped(rest, out, para)
             ELSE sectionLoopLabelSkipped(rest, out, Append(para, line)))))

\* the for loop of toSectionedHTML and the flushPara() after it
RECURSIVE sectionLoop(_, _, _)
sectionLoop(lines, out, para) ==
    IF Len(lines) = 0 THEN flushPara(out, para)
    ELSE With(trim(lines[1]), LAMBDA line :
         With(Tail(lines), LAMBDA rest :
         With(flushPara(out, para), LAMBDA flushed :
             IF Len(line) = 0
             THEN sectionLoop(rest, flushed, <<>>)
             ELSE IF HEADING(line)
             THEN sectionLoop(rest,
                      Append(flushed, T_h3 \o stripColon(line) \o T_h3End),
                      <<>>)
             ELSE IF verbalLabel(line)
             THEN sectionLoop(rest, flushed, <<>>)
             ELSE IF testWritten(line)
             THEN sectionLoop(rest, flushed, <<>>)
             ELSE With(Append(para, line), LAMBDA para2 :
                      sectionLoop(rest, out, para2)))))

toSectionedHTML(text) ==
    IF Len(text) = 0 THEN NotProvided
    ELSE join(sectionLoop(splitLines(esc(text)), <<>>, <<>>), <<NL>>)

\* a plausible slip: the text is split at every newline, /\n+/
RECURSIVE splitBlankSingle(_, _)
splitBlankSingle(s, cur) ==
    With({i \in 1..Len(s) : s[i] = NL}, LAMBDA P :
        IF P = {} THEN <<cur \o s>>
        ELSE With(Least(P), LAMBDA i :
             With(Drop(s, i - 1 + RunLen(Drop(s, i - 1), {NL})), LAMBDA rest :
                 <<cur \o Take(s, i - 1)>> \o splitBlankSingle(rest, <<>>))))

\* s.split(/\n{2,}/)
RECURSIVE splitBlank(_, _)
splitBlank(s, cur) ==
    With({i \in 1..(Len(s) - 1) : s[i] = NL /\ s[i + 1] = NL}, LAMBDA P :
        IF P = {} THEN <<cur \o s>>
        ELSE With(Least(P), LAMBDA i :
             With(Drop(s, i - 1 + RunLen(Drop(s, i - 1), {NL})), LAMBDA rest :
                 <<cur \o Take(s, i - 1)>> \o splitBlank(rest, <<>>))))

\* parts.map(p => p.trim()).filter(Boolean).map(p => `<p>${p}</p>`)
RECURSIVE paragraphs(_)
paragraphs(parts) ==
    IF Len(parts) = 0 THEN <<>>
    ELSE LET p == trim(parts[1])
         IN  (IF Len(p) > 0 THEN <<T_p \o p \o T_pEnd>> ELSE <<>>)
             \o paragraphs(Tail(parts))

\* a plausible slip: the verbal text given to the sectioned formatter
toVerbalSectioned(text) == toSectionedHTML(text)

toVerbalHTML(text) ==
    IF Len(text) = 0 THEN NotProvided
    ELSE With(trim(collapseBlank(esc(text))), LAMBDA s :
             join(paragraphs(splitBlank(s, <<>>)), <<NL>>))

-----------------------------------------------------------------------------
(* JavaScript values.  A value is [t, v, f]: t is its kind, v is String(x)   *)
(* as characters, f maps every key the code reads to the property's value   *)
(* (undefined when the object has no such key).                             *)

Keys == {"judgeAnalysis", "judge_feedback", "feedback", "verbalRfd",
         "verbal_rfd", "writtenRfd", "written_rfd", "rfd", "flowNotes"}

JUndef == [t |-> "undefined", v |-> <<"u","n","d","e","f","i","n","e","d">>, f |-> <<>>]
JNull == [t |-> "null", v |-> <<"n","u","l","l">>, f |-> <<>>]
JStr(s) == [t |-> "string", v |-> s, f |-> <<>>]
JNum(digits) == [t |-> "number", v |-> digits, f |-> <<>>]
JTrue == [t |-> "boolean", v |-> <<"t","r","u","e">>, f |-> <<>>]
JFalse == [t |-> "boolean", v |-> <<"f","a","l","s","e">>, f |-> <<>>]
\* an array; String([]) is "", String(["a"]) is "a"
JArr(str) == [t |-> "array", v |-> str, f |-> <<>>]
\* an object with the given properties; fields is a function on some keys
JObj(fields) ==
    [t |-> "object",
     v |-> <<"[","o","b","j","e","c","t"," ","O","b","j","e","c","t","]">>,
     f |-> [k \in Keys |-> IF k \in DOMAIN fields THEN fields[k] ELSE JUndef]]
EmptyObject == [t |-> "object",
                v |-> <<"[","o","b","j","e","c","t"," ","O","b","j","e","c","t","]">>,
                f |-> [k \in Keys |-> JUndef]]

\* ToBoolean
truthy(x) ==
    CASE x.t \in {"undefined", "null"} -> FALSE
      [] x.t = "string" -> Len(x.v) > 0
      [] x.t = "number" -> x.v # <<"0">>
      [] x.t = "boolean" -> x.v = JTrue.v
      [] OTHER -> TRUE

nullish(x) == x.t \in {"undefined", "null"}

\* x.k for a non-nullish x: primitives and arrays have none of the keys
get(x, k) == IF x.t = "object" THEN x.f[k] ELSE JUndef

\* a ?? b ?? ... ?? dflt
RECURSIVE coalesce(_, _)
coalesce(xs, dflt) ==
    IF Len(xs) = 0 THEN dflt
    ELSE IF nullish(xs[1]) THEN coalesce(Tail(xs), dflt)
    ELSE xs[1]

\* typeof x === "string"
isString(x) == x.t = "string"

\* String(x || "")
stringOr(x) == IF truthy(x) THEN x.v ELSE <<>>

\* calling x.trim() throws a TypeError unless x is a string
trimThrows(x) == ~isString(x)

-----------------------------------------------------------------------------
(* pickRfds: [threw, verbal, written]; threw = a TypeError left the function *)

Thrown == [threw |-> TRUE, verbal |-> <<>>, written |-> <<>>]

\* a plausible slip: `|| {}` forgotten, so a falsy payload is read as it is
payloadAsIs(payload) == payload

\* json || {}
orEmptyObject(payload) == IF truthy(payload) THEN payload ELSE EmptyObject

\* the combined blob, "" when there is none
combinedOf(j, ja, written) ==
    IF isString(get(ja, "rfd")) /\ truthy(get(ja, "rfd"))
    THEN get(ja, "rfd").v
    ELSE IF isString(written) /\ testWritten(written.v)
    THEN written.v
    ELSE IF isString(get(j, "rfd")) /\ truthy(get(j, "rfd"))
    THEN get(j, "rfd").v
    ELSE <<>>

\* !x || !x.trim(), for an x that is falsy or a string
blank(x) == ~truthy(x) \/ Len(trim(x.v)) = 0

\* a plausible slip: flowNotes taken whenever it is truthy, whatever its type
pickReturnAnyFlowNotes(j, verbal, written) ==
    IF truthy(written) /\ trimThrows(written) THEN Thrown
    ELSE With(IF blank(written) /\ truthy(get(j, "flowNotes"))
              THEN get(j, "flowNotes") ELSE written,
              LAMBDA written2 :
                  [threw |-> FALSE,
                   verbal |-> normalize(stringOr(verbal)),
                   written |-> normalize(stringOr(written2))])

\* the last resort and the return statement
pickReturn(j, verbal, written) ==
    \* (!written || !written.trim()) && typeof j.flowNotes === "string"
    IF truthy(written) /\ trimThrows(written) THEN Thrown
    ELSE With(IF blank(written) /\ isString(get(j, "flowNotes"))
              THEN get(j, "flowNotes") ELSE written,
              LAMBDA written2 :
                  [threw |-> FALSE,
                   verbal |-> normalize(stringOr(verbal)),
                   written |-> normalize(stringOr(written2))])

pickRfds(payload) ==
    With(orEmptyObject(payload), LAMBDA j :
    \* reading a property of null or undefined throws a TypeError
    IF nullish(j) THEN Thrown
    ELSE
    With(coalesce(<<get(j, "judgeAnalysis"), get(j, "judge_feedback"),
                    get(j, "feedback")>>, EmptyObject), LAMBDA ja :
    With(coalesce(<<get(ja, "verbalRfd"), get(ja, "verbal_rfd"),
                    get(j, "verbalRfd"), get(j, "verbal_rfd")>>,
                  JStr(<<>>)), LAMBDA verbal :
    With(coalesce(<<get(ja, "writtenRfd"), get(ja, "written_rfd"),
                    get(j, "writtenRfd"), get(j, "written_rfd")>>,
                  JStr(<<>>)), LAMBDA written :
    With(combinedOf(j, ja, written), LAMBDA combined :
        \* (!verbal || !verbal.trim()) && combined
        IF truthy(verbal) /\ trimThrows(verbal) THEN Thrown
        ELSE IF blank(verbal) /\ Len(combined) > 0
        THEN With(splitCombinedBlob(combined), LAMBDA split :
                 pickReturn(j,
                     IF ~truthy(verbal) THEN JStr(split.verbal) ELSE verbal,
                     IF ~truthy(written) THEN JStr(split.written)
                     ELSE written))
        ELSE pickReturn(j, verbal, written))))))

-----------------------------------------------------------------------------
(* ResultsPage: one render *)

Crashed == [crashed |-> TRUE, verbal |-> <<>>, written |-> <<>>,
            hasAnything |-> FALSE, noFeedbackCard |-> FALSE,
            cards |-> FALSE, verbalHTML |-> <<>>, writtenHTML |-> <<>>]

NotRendered == [crashed |-> FALSE, verbal |-> <<>>, written |-> <<>>,
                hasAnything |-> FALSE, noFeedbackCard |-> FALSE,
                cards |-> FALSE, verbalHTML |-> <<>>, writtenHTML |-> <<>>]

\* the body of ResultsPage with state json = state
render(state) ==
    With(pickRfds(IF nullish(state) THEN EmptyObject ELSE state), LAMBDA r :
        IF r.threw THEN Crashed
        ELSE With(Len(r.verbal) > 0 \/ Len(r.written) > 0,
                  LAMBDA hasAnything :
                 [crashed |-> FALSE,
                  verbal |-> r.verbal, written |-> r.written,
                  hasAnything |-> hasAnything,
                  noFeedbackCard |-> ~hasAnything,
                  cards |-> hasAnything,
                  verbalHTML |-> toVerbalHTML(r.verbal),
                  writtenHTML |-> toSectionedHTML(r.written)]))

\* the strings pickRfds gives to WRITTEN_ANCHOR.test: `written`, when
\* ja.rfd is no non-empty string and written is a string
pickTests(payload) ==
    With(orEmptyObject(payload), LAMBDA j :
    With(coalesce(<<get(j, "judgeAnalysis"), get(j, "judge_feedback"),
                    get(j, "feedback")>>, EmptyObject), LAMBDA ja :
    With(coalesce(<<get(ja, "writtenRfd"), get(ja, "written_rfd"),
                    get(j, "writtenRfd"), get(j, "written_rfd")>>,
                  JStr(<<>>)), LAMBDA written :
        IF isString(get(ja, "rfd")) /\ truthy(get(ja, "rfd")) THEN <<>>
        ELSE IF isString(written) THEN <<written.v>>
        ELSE <<>>)))

\* the lines toSectionedHTML gives to WRITTEN_ANCHOR.test: those that are
\* not blank, no heading and no "Verbal RFD:" label
RECURSIVE lineTests(_)
lineTests(lines) ==
    IF Len(lines) = 0 THEN <<>>
    ELSE With(trim(lines[1]), LAMBDA line :
             (IF Len(line) = 0 \/ HEADING(line) \/ verbalLabel(line)
              THEN <<>> ELSE <<line>>)
             \o lineTests(Tail(lines)))

\* the strings one render gives to WRITTEN_ANCHOR.test, in order
renderTests(state) ==
    With(IF nullish(state) THEN EmptyObject ELSE state, LAMBDA payload :
    With(pickRfds(payload), LAMBDA r :
        pickTests(payload)
        \o (IF r.threw \/ Len(r.written) = 0 THEN <<>>
            ELSE lineTests(splitLines(esc(r.written))))))

\* WRITTEN_ANCHOR.lastIndex after the tests, starting from li
RECURSIVE lastIndexAfter(_, _)
lastIndexAfter(tests, li) ==
    IF Len(tests) = 0 THEN li
    ELSE lastIndexAfter(Tail(tests), regExpTest(tests[1], li).lastIndex)

-----------------------------------------------------------------------------
(* Input sets *)

\* longest text, in characters, given to normalize
MaxLen == 5
\* most fragments a blob given to splitCombinedBlob is made of
MaxBlobFrags == 4
\* most fragments a text given to the formatters is made of
MaxFmtFrags == 3
\* most heading sections of a sectioned text
MaxSections == 2
\* most properties set in a generated payload object
MaxFields == 2
\* most renders of the page over one module instance
MaxRenders == 3
MaxParaLines == 4

RECURSIVE SeqsUpTo(_, _)
SeqsUpTo(S, n) ==
    IF n = 0 THEN {<<>>}
    ELSE LET shorter == SeqsUpTo(S, n - 1)
         IN  shorter \cup
             {Append(s, c) : s \in {x \in shorter : Len(x) = n - 1}, c \in S}

RECURSIVE concat(_)
concat(pieces) ==
    IF Len(pieces) = 0 THEN <<>> ELSE pieces[1] \o concat(Tail(pieces))

\* the characters normalize treats specially, and one it does not
NormChars == {"a", "*", SP, TAB, NL, CR}
NormTexts == SeqsUpTo(NormChars, MaxLen)

F_VerbalRfd == <<"V","e","r","b","a","l",SP,"R","F","D",":">>
F_verbalrfd == <<"v","e","r","b","a","l",SP,"r","f","d">>
F_WrittenRfd == <<"W","r","i","t","t","e","n",SP,"R","F","D",":">>
F_writtenFlow ==
    <<"w","r","i","t","t","e","n",SP,"r","f","d",SP,"a","n","d",SP,"s","p","e","e","c","h","-","b","y","-","s","p","e","e","c","h",SP,"f","l","o","w",SP,"a","n","a","l","y","s","i","s">>
F_NegSummary == <<"N","e","g",SP,"S","u","m","m","a","r","y",":">>

BlobFrags == {F_VerbalRfd, F_verbalrfd, F_WrittenRfd, F_writtenFlow,
              <<"a">>, <<NL>>}
Blobs == {concat(fs) : fs \in SeqsUpTo(BlobFrags, MaxBlobFrags)}

FmtFrags == {<<"a", "\"">>, <<"&">>, <<"<">>, <<">">>, <<SP>>, <<NL>>,
             F_NegSummary, F_VerbalRfd, F_WrittenRfd}
FmtTexts == {concat(fs) : fs \in SeqsUpTo(FmtFrags, MaxFmtFrags)}

(* Sectioned texts: an optional opening paragraph, then sections of a      *)
(* heading line and body lines, the blocks gap newlines apart.             *)

H_AffConstructive == <<"A","f","f",SP,"C","o","n","s","t","r","u","c","t","i","v","e",":">>
H_negFinalFocus == <<"n","e","g",SP,"f","i","n","a","l",SP,"f","o","c","u","s",":">>
H_Crossfire == <<"C","r","o","s","s","f","i","r","e",SP,"2",":">>
H_GrandCrossfire == <<"G","r","a","n","d",SP,"C","r","o","s","s","f","i","r","e",":">>
B_affirm == <<"W","e",SP,"a","f","f","i","r","m",".">>
B_amp == <<"a","<","b",SP,"&",SP,"c">>
B_x == <<"x">>

Headings == {H_AffConstructive, H_negFinalFocus, H_Crossfire, H_GrandCrossfire}
Bodies == {<<B_affirm>>, <<B_amp>>, <<B_x, B_affirm>>}
Sections == [heading : Headings, body : Bodies]

NoDoc == [preface |-> <<>>, gap |-> 0, sections |-> <<>>]
Docs == {[preface |-> p, gap |-> g, sections |-> ss] :
            p \in {<<>>, <<B_x>>}, g \in {1, 2},
            ss \in SeqsUpTo(Sections, MaxSections) \ {<<>>}}

\* the text of a document
docText(d) ==
    LET sep == IF d.gap = 1 THEN <<NL>> ELSE <<NL, NL>>
        block(i) == d.sections[i].heading \o <<NL>>
                    \o join(d.sections[i].body, <<NL>>)
        blocks == [i \in 1..Len(d.sections) |-> block(i)]
    IN  join((IF Len(d.preface) = 0 THEN <<>>
              ELSE <<join(d.preface, <<NL>>)>>) \o blocks, sep)

(* Texts with a label line between two runs of lines *)

Labels == {F_VerbalRfd,
           <<"v","e","r","b","a","l","r","f","d",SP,":">>,
           F_WrittenRfd,
           <<"W","r","i","t","t","e","n",SP,"R","F","D">>,
           <<SP>> \o F_writtenFlow \o <<":",SP>>}
LabelBefores == {<<>>, <<B_x>>, <<B_x, B_affirm>>, <<B_amp>>}
LabelAfters == {<<>>, <<B_affirm>>, <<B_x, B_x>>}
labelText(before, label, after) ==
    join(before \o <<label>> \o after, <<NL>>)
LabelTexts ==
    {labelText(b, l, a) : b \in LabelBefores, l \in Labels, a \in LabelAfters}

(* Texts of plain and blank lines *)

P_wide == <<SP, "a", SP, SP, "b", SP>>
P_tab == <<"a", TAB, "b">>
ParaLines == {<<>>, <<SP>>, B_x, P_wide, P_tab}
ParaTexts ==
    {join(ls, <<NL>>) : ls \in SeqsUpTo(ParaLines, MaxParaLines) \ {<<>>}}

(* Payloads *)

S_hi == <<"H","i",".">>
S_ok == <<"O","k",".">>
S_detail == <<"d",".">>
\* '<summary> Written RFD: Aff Constructive: <detail>'
combinedBlob(summary, detail) ==
    summary \o <<SP,"W","r","i","t","t","e","n",SP,"R","F","D",":",SP,"A","f","f",SP,"C","o","n","s","t","r","u","c","t","i","v","e",":",SP>> \o detail
S_blob == combinedBlob(S_ok, S_detail)

FieldVals == {JStr(<<>>), JStr(<<SP>>), JStr(S_hi), JStr(S_blob),
              JNum(<<"7">>), JNull, JArr(<<"a">>)}
NestedVals == {JStr(<<>>), JStr(S_hi), JStr(S_blob), JNull}

TopKeys == {"verbalRfd", "verbal_rfd", "writtenRfd", "written_rfd", "rfd",
            "flowNotes"}
NestedKeys == {"verbalRfd", "verbal_rfd", "writtenRfd", "written_rfd", "rfd"}
Wrappers == {"judgeAnalysis", "judge_feedback", "feedback"}

\* the functions from at most n of the keys K to the values V
Assignments(K, V, n) ==
    UNION {[D -> V] : D \in {X \in SUBSET K : Cardinality(X) <= n}}

\* objects with top-level properties only
FlatPayloads == {JObj(a) : a \in Assignments(TopKeys, FieldVals, MaxFields)}
\* objects with one wrapper object holding the properties
NestedPayloads ==
    {JObj(w :> JObj(a)) :
        w \in Wrappers, a \in Assignments(NestedKeys, NestedVals, MaxFields)}
\* the same key inside the wrapper and at top level
ShadowPayloads ==
    {JObj((w :> JObj(k :> v1)) @@ (k :> v2)) :
        w \in Wrappers, k \in NestedKeys, v1 \in NestedVals, v2 \in FieldVals}
\* a wrapper that is no object in front of one that is
FallThroughPayloads ==
    {JObj(("judgeAnalysis" :> x) @@ ("feedback" :> JObj(k :> v))) :
        x \in {JNull, JNum(<<"0">>), JStr(S_hi)},
        k \in NestedKeys, v \in {JStr(S_hi), JStr(S_blob)}}
\* values that are no objects
NonObjects == {JNull, JNum(<<"0">>), JNum(<<"7">>), JStr(<<>>), JStr(S_hi),
               JTrue, JFalse, JArr(<<>>)}

\* '**Hi.** ' and 'Verbal RFD: Hi.'
S_bold == <<"*","*">> \o S_hi \o <<"*","*",SP>>
S_verbalOnly == F_VerbalRfd \o <<SP>> \o S_hi
\* flow notes next to written text that is absent, blank or present
FlowNotesPayloads ==
    {JObj(w @@ ("flowNotes" :> fn)) :
        w \in {<<>>,
                "writtenRfd" :> JStr(<<SP>>),
                "writtenRfd" :> JStr(S_ok),
                "rfd" :> JStr(S_verbalOnly),
                "rfd" :> JStr(S_blob)},
        fn \in {JStr(S_bold), JArr(S_bold), JObj(<<>>)}}

Payloads == FlatPayloads \cup NestedPayloads \cup ShadowPayloads
            \cup FallThroughPayloads \cup FlowNotesPayloads \cup NonObjects

\* payloads stored by successive analyses
RepeatPayloads ==
    {JNull,
     JObj("writtenRfd" :> JStr(S_blob)),
     JObj("rfd" :> JStr(S_blob)),
     JObj(("verbalRfd" :> JStr(S_hi))
          @@ ("writtenRfd" :> JStr(F_WrittenRfd \o <<NL>> \o S_detail))),
     \* 'Aff Constructive: d. Written RFD:'
     JObj("writtenRfd" :>
          JStr(H_AffConstructive \o <<SP>> \o S_detail \o <<SP>> \o F_WrittenRfd)),
     JObj("feedback" :> JObj("written_rfd" :> JStr(S_hi))),
     JObj("verbalRfd" :> JNum(<<"7">>))}

-----------------------------------------------------------------------------
(* State machine *)

(* app/playground/page.tsx: PlaygroundPage *)

KeyMinLen == 16

\* apiKeys.<key>.trim().length >= 16
keyOk(key) == Len(trim(key)) >= KeyMinLen

\* canNext = aaiOk && orOk
canNext(keys) == keyOk(keys.assemblyai) /\ keyOk(keys.openrouter)

\* canAnalyze = !!file && canNext
canAnalyze(f, keys) == f # JNull /\ canNext(keys)

\* a plausible slip: the Run button is not disabled while the job runs
runDisabledIdle(f, keys, j) == ~canAnalyze(f, keys)

\* the Run button: disabled={!canAnalyze || job === "running"}
runDisabled(f, keys, j) == ~canAnalyze(f, keys) \/ j = "running"

\* appendLog: [...L, line].slice(-300); the time stamp in front of the line
\* is left out
appendLog(L, line) ==
    LET all == Append(L, line)
    IN  IF Len(all) > 300 THEN SubSeq(all, Len(all) - 299, Len(all)) ELSE all

L_uploading == "Uploading..."
L_completed == "Completed"
\* the staged console lines and their delays in milliseconds
Stages == <<[line |-> "Transcribing (AssemblyAI)...", delay |-> 1200],
            [line |-> "Analyzing with AI Judge...", delay |-> 12000],
            [line |-> "Scoring & weighing...", delay |-> 18000],
            [line |-> "Writing RFD & flow...", delay |-> 23000]>>
StageLines == {Stages[i].line : i \in 1..Len(Stages)}

\* `Error: ${msg}`
errorLine(msg) == <<"Error: ", msg>>

\* the ids window.setTimeout and window.setInterval can hand out; an id that
\* is neither set nor kept in a ref is as good as a fresh one
MaxTimerIds == 5
TimerIds == 1..MaxTimerIds
usedIds(ticker, stages, ivs, tos) ==
    (IF ticker = 0 THEN {} ELSE {ticker})
    \cup {stages[i] : i \in 1..Len(stages)}
    \cup ivs \cup {to.id : to \in tos}

\* the ids of a set, smallest first
RECURSIVE sortedIds(_)
sortedIds(S) ==
    IF S = {} THEN <<>> ELSE <<Least(S)>> \o sortedIds(S \ {Least(S)})

\* the updater of the ticker: progress in tenths,
\* inc = p < 55 ? 1.6 : p < 72 ? 1.1 : p < 82 ? 0.7 : p < 89 ? 0.4 : 0
\* and Math.min(p + inc, 89). No sum of these steps from 3 falls on a
\* threshold, so the floating-point sums take the same branches.
tickInc(p) ==
    IF p < 550 THEN 16
    ELSE IF p < 720 THEN 11
    ELSE IF p < 820 THEN 7
    ELSE IF p < 890 THEN 4
    ELSE 0

\* a plausible slip: the last stretch has no increment (stalls below 89)
tickStall(p) ==
    LET inc == IF p < 550 THEN 16
               ELSE IF p < 720 THEN 11
               ELSE IF p < 820 THEN 7
               ELSE 0
    IN  IF p + inc < 890 THEN p + inc ELSE 890

\* a plausible slip: the cap is forgotten
tickNoCap(p) == p + 16

tick(p) == IF p + tickInc(p) < 890 THEN p + tickInc(p) ELSE 890

\* what the timers are after stopTicker's and startTicker's clean-up:
\* clearInterval(tickerRef.current) if it is set, clearTimeout for each id
\* of stageTimers.current
clearedIntervals(ticker, ivs) == IF ticker # 0 THEN ivs \ {ticker} ELSE ivs
\* a plausible slip: the stage timeouts are forgotten, not cleared
forgottenTimeouts(stages, tos) == tos

clearedTimeouts(stages, tos) ==
    {to \in tos : \A i \in 1..Len(stages) : stages[i] # to.id}

\* JSON.parse of a response body; res.json() throws on anything else
J_rfd == "{\"rfd\":\"a\"}"
J_rfdSpaced == "{ \"rfd\": \"a\" }"
J_null == "null"
J_html == "<html>"
V_rfd == [rfd |-> "a"]
jsonOk(text) == text \in {J_rfd, J_rfdSpaced, J_null}
jsonParse(text) == IF text = J_null THEN JNull ELSE V_rfd
\* JSON.stringify(data)
jsonStringify(data) == IF data = JNull THEN J_null ELSE J_rfd

\* a plausible slip: res.ok is not looked at
postFormAnyStatus(fetched) ==
    IF fetched.rejected
    THEN [threw |-> TRUE, message |-> fetched.message, data |-> JNull]
    ELSE IF fetched.textFails \/ ~jsonOk(fetched.text)
    THEN [threw |-> TRUE, message |-> "Unexpected token", data |-> JNull]
    ELSE [threw |-> FALSE, message |-> "", data |-> jsonParse(fetched.text)]

\* postForm: what the call settles with, for what fetch settled with
\*   fetch rejects                      -> throws that error
\*   !res.ok                            -> throws Error(msg || "Request failed"),
\*                                         msg the body, or statusText if
\*                                         reading the body fails
\*   res.ok, res.json() fails           -> throws the SyntaxError
\*   res.ok, res.json() gives data      -> returns data
postForm(fetched) ==
    IF fetched.rejected
    THEN [threw |-> TRUE, message |-> fetched.message, data |-> JNull]
    ELSE IF ~fetched.ok
    THEN LET msg == IF fetched.textFails THEN fetched.statusText
                    ELSE fetched.text
         IN  [threw |-> TRUE,
              message |-> IF msg = "" THEN "Request failed" ELSE msg,
              data |-> JNull]
    ELSE IF fetched.textFails \/ ~jsonOk(fetched.text)
    THEN [threw |-> TRUE, message |-> "Unexpected token", data |-> JNull]
    ELSE [threw |-> FALSE, message |-> "", data |-> jsonParse(fetched.text)]

\* err?.message || "Analysis failed"
messageOf(message) == IF message = "" THEN "Analysis failed" ELSE message

NoEntry == <<>>
\* the component as it is after its first render
NoKeys == [assemblyai |-> <<>>, openrouter |-> <<>>]
PlaygroundMounted ==
    /\ step = 1 /\ file = JNull /\ apiKeys = NoKeys
    /\ job = "idle" /\ progress = 0 /\ logs = <<>> /\ lastResult = JNull
    /\ tickerRef = 0 /\ stageTimers = <<>>
    /\ intervals = {} /\ timeouts = {} /\ inflight = 0

(* components/analyze-form.tsx: AnalyzeForm *)

\* the submit button: disabled={isAnalyzing}
submitNeverDisabled(analyzing) == FALSE
submitDisabled(analyzing) == analyzing

\* addLog(message, type): the entry, without its time stamp
newLog(message, type) == [message |-> message, type |-> type]

\* handleSubmit's checks: the error it logs, or "" when it goes on
submitError(f, keys) ==
    IF f = JNull THEN "Please upload an audio file first"
    ELSE IF keys.openai = <<>> \/ keys.huggingface = <<>>
            \/ keys.openrouter = <<>>
    THEN "Please provide all required API keys"
    ELSE ""

\* the lines the two loops of simulateAnalysis log at i = 30, 60 and 90
judgingLine(i) ==
    CASE i = 30 -> <<newLog("Transcribing audio...", "info")>>
      [] i = 60 -> <<newLog("Analyzing arguments...", "info")>>
      [] i = 90 -> <<newLog("Generating judge feedback...", "info")>>
      [] OTHER -> <<>>
deliveryLine(i) ==
    CASE i = 30 -> <<newLog("Analyzing speech patterns...", "info")>>
      [] i = 60 -> <<newLog("Measuring pace and pauses...", "info")>>
      [] i = 90 -> <<newLog("Calculating delivery metrics...", "info")>>
      [] OTHER -> <<>>
L_judgingDone == "Judging analysis complete!"
L_deliveryDone == "Delivery analysis complete!"

\* the component as it is after its first render
NoFormKeys == [openai |-> <<>>, huggingface |-> <<>>, openrouter |-> <<>>]
FormMounted ==
    /\ isAnalyzing = FALSE /\ judgingProgress = 0 /\ deliveryProgress = 0
    /\ sims = <<>> /\ route = "/analyze"

(* app/api/analyze/route.ts: the proxy POST /api/analyze *)

S_speech == <<"s","p","e","e","c","h">>
S_debate == <<"d","e","b","a","t","e">>
S_analyze == <<"/","a","n","a","l","y","z","e","/">>
DefaultBackend ==
    <<"h","t","t","p",":","/","/","1","2","7",".","0",".","0",".","1",
      ":","5","0","5","7">>
S_api == <<"h","t","t","p",":","/","/","a","p","i">>

\* searchParams.get("type") ?? "speech"
typeOf(request) == coalesce(<<request.type>>, JStr(S_speech)).v

\* process.env.BACKEND_URL || "http://127.0.0.1:5057"
backendOf(e) == IF truthy(e) THEN e.v ELSE DefaultBackend

\* `${backend}/analyze/${type}`
urlOf(e, request) == backendOf(e) \o S_analyze \o typeOf(request)

\* what POST throws or is thrown at: an Error with a name and a message
E_formData == [name |-> <<"TypeError">>, message |-> <<"not a form">>]
E_fetch == [name |-> <<"TypeError">>, message |-> <<"fetch failed">>]
E_bare == [name |-> <<"Error">>, message |-> <<>>]
E_text == [name |-> <<"TypeError">>, message |-> <<"terminated">>]
E_range == [name |-> <<"RangeError">>, message |-> <<"status out of range">>]
E_nullBody == [name |-> <<"TypeError">>, message |-> <<"invalid status">>]
NoError == [name |-> <<>>, message |-> <<>>]

\* String(err?.message || err)
errorText(err) == IF Len(err.message) > 0 THEN err.message ELSE err.name

\* the statuses a Response with a body cannot have (Fetch: null body status)
NullBodyStatus == {101, 103, 204, 205, 304}

NoResponse == [made |-> FALSE, threw |-> NoError, status |-> 0,
               body |-> <<>>, contentType |-> JNull]

\* new NextResponse(text, { status, headers: { "content-type": ... } }):
\* the Response constructor throws a RangeError for a status outside
\* 200..599 and a TypeError for a body, "" too, with a null body status
NextResponse(text, status, contentType) ==
    IF status \notin 200..599
    THEN [NoResponse EXCEPT !.threw = E_range]
    ELSE IF status \in NullBodyStatus
    THEN [NoResponse EXCEPT !.threw = E_nullBody]
    ELSE [made |-> TRUE, threw |-> NoError, status |-> status, body |-> text,
          contentType |-> contentType]

S_textPlain == <<"text/plain">>
S_json == <<"application/json">>

\* NextResponse.json({ error: String(err?.message || err) }, { status: 500 })
errorResponse(err) ==
    [made |-> TRUE, threw |-> NoError, status |-> 500,
     body |-> <<"{\"error\":\"">> \o errorText(err) \o <<"\"}">>,
     contentType |-> JStr(S_json)]

\* upstream.headers.get("content-type") ?? "text/plain"
contentTypeOf(upstream) == coalesce(<<upstream.contentType>>, JStr(S_textPlain))

NoForm == "not a form"
NoRequest == [type |-> JNull, form |-> NoForm]
NoFetch == [sent |-> FALSE, url |-> <<>>, method |-> "", body |-> NoForm]
NoLocals == [fetch |-> NoFetch, upstream |-> NoResponse, text |-> JUndef,
             err |-> NoError]

(* The requests, the environment and the backend's answers *)

Forms == {"form with audio", "empty form"}
Requests == [type : {JNull, JStr(<<>>), JStr(S_speech), JStr(S_debate)},
             form : Forms \cup {NoForm}]
Environments == {JUndef, JStr(<<>>), JStr(S_api)}
UpstreamStatuses == {200, 204, 404, 422, 500}
UpstreamBodies == {<<>>, <<"{\"ok\":true}">>, <<"{\"error\":\"fetch failed\"}">>}
UpstreamResponses ==
    [made : {TRUE}, threw : {NoError}, status : UpstreamStatuses,
     body : UpstreamBodies, contentType : {JNull, JStr(S_json)}]

NoPair == [threw |-> FALSE, verbal |-> <<>>, written |-> <<>>]

(* normalize applied once, and then again to its own result *)

InitNormalize ==
    /\ pc = "ready"
    /\ src \in NormTexts
    /\ doc = NoDoc /\ ret = <<>> /\ ret2 = <<>> /\ arg = JUndef /\ sp = NoPair
    /\ stored = "unread" /\ json = JNull /\ page = NotRendered
    /\ lastIndex = 0 /\ hist = {} /\ calls = 0
    /\ req = NoRequest /\ env = JUndef /\ locals = NoLocals /\ res = NoResponse
    /\ PlaygroundMounted /\ storage = NoEntry /\ tabs = 0
    /\ FormMounted

CallNormalize ==
    /\ pc = "ready"
    /\ ret' = normalize(src)
    /\ pc' = "normalized"
    /\ UNCHANGED <<src, doc, ret2, arg, sp, stored, json, page,
                 lastIndex, hist, calls, proxyVars, playVars, formVars>>

CallNormalizeAgain ==
    /\ pc = "normalized"
    /\ ret2' = normalize(ret)
    /\ pc' = "renormalized"
    /\ UNCHANGED <<src, doc, ret, arg, sp, stored, json, page,
                 lastIndex, hist, calls, proxyVars, playVars, formVars>>

NextNormalize == CallNormalize \/ CallNormalizeAgain

SpecNormalize == InitNormalize /\ [][NextNormalize]_vars

(* splitCombinedBlob applied to a blob *)

InitSplit ==
    /\ pc = "ready"
    /\ src \in Blobs
    /\ doc = NoDoc /\ ret = <<>> /\ ret2 = <<>> /\ arg = JUndef /\ sp = NoPair
    /\ stored = "unread" /\ json = JNull /\ page = NotRendered
    /\ lastIndex = 0 /\ hist = {} /\ calls = 0
    /\ req = NoRequest /\ env = JUndef /\ locals = NoLocals /\ res = NoResponse
    /\ PlaygroundMounted /\ storage = NoEntry /\ tabs = 0
    /\ FormMounted

CallSplitCombinedBlob ==
    /\ pc = "ready"
    /\ sp' = [threw |-> FALSE] @@ splitCombinedBlob(src)
    /\ pc' = "split"
    /\ UNCHANGED <<src, doc, ret, ret2, arg, stored, json, page,
                 lastIndex, hist, calls, proxyVars, playVars, formVars>>

NextSplit == CallSplitCombinedBlob

SpecSplit == InitSplit /\ [][NextSplit]_vars

(* the two formatters applied to a text *)

InitFormat ==
    /\ pc = "ready"
    /\ \/ doc = NoDoc /\ src \in FmtTexts \cup LabelTexts \cup ParaTexts
       \/ doc \in Docs /\ src = docText(doc)
    /\ ret = <<>> /\ ret2 = <<>> /\ arg = JUndef /\ sp = NoPair
    /\ stored = "unread" /\ json = JNull /\ page = NotRendered
    /\ lastIndex = 0 /\ hist = {} /\ calls = 0
    /\ req = NoRequest /\ env = JUndef /\ locals = NoLocals /\ res = NoResponse
    /\ PlaygroundMounted /\ storage = NoEntry /\ tabs = 0
    /\ FormMounted

CallToSectionedHTML ==
    /\ pc = "ready"
    /\ ret' = toSectionedHTML(src)
    /\ pc' = "sectioned"
    /\ UNCHANGED <<src, doc, ret2, arg, sp, stored, json, page,
                 lastIndex, hist, calls, proxyVars, playVars, formVars>>

CallToVerbalHTML ==
    /\ pc = "ready"
    /\ ret' = toVerbalHTML(src)
    /\ pc' = "verbal"
    /\ UNCHANGED <<src, doc, ret2, arg, sp, stored, json, page,
                 lastIndex, hist, calls, proxyVars, playVars, formVars>>

CallEsc ==
    /\ pc = "ready"
    /\ ret' = esc(src)
    /\ pc' = "escaped"
    /\ UNCHANGED <<src, doc, ret2, arg, sp, stored, json, page,
                 lastIndex, hist, calls, proxyVars, playVars, formVars>>

NextFormat == CallToSectionedHTML \/ CallToVerbalHTML \/ CallEsc

SpecFormat == InitFormat /\ [][NextFormat]_vars

(* ResultsPage: the first render, the effect that reads localStorage, the   *)
(* render that setJson causes; and pickRfds called directly                *)

Init ==
    /\ pc = "start"
    /\ src = <<>> /\ doc = NoDoc /\ ret = <<>> /\ ret2 = <<>>
    /\ arg = JUndef /\ sp = NoPair
    /\ stored = "unread" /\ json = JNull /\ page = NotRendered
    /\ lastIndex = 0 /\ hist = {} /\ calls = 0
    /\ req = NoRequest /\ env = JUndef /\ locals = NoLocals /\ res = NoResponse
    /\ PlaygroundMounted /\ storage = NoEntry /\ tabs = 0
    /\ FormMounted

\* the component function runs: useMemo(pickRfds), hasAnything, the HTML
Render ==
    /\ pc \in {"start", "loaded"}
    /\ page' = render(json)
    /\ pc' = IF pc = "start" THEN "mounted" ELSE "idle"
    /\ UNCHANGED <<src, doc, ret, ret2, arg, sp, stored, json,
                 lastIndex, hist, calls, proxyVars, playVars, formVars>>

\* useEffect: nothing stored, or text JSON.parse rejects, leaves json alone
LoadEffect ==
    /\ pc = "mounted"
    /\ \/ /\ stored' \in {"absent", "unparsable"}
          /\ pc' = "idle"
          /\ json' = json
       \/ /\ stored' = "parsed"
          /\ json' \in Payloads
          /\ pc' = "loaded"
    /\ UNCHANGED <<src, doc, ret, ret2, arg, sp, page,
                 lastIndex, hist, calls, proxyVars, playVars, formVars>>

\* pickRfds(x) for an x that is no object, undefined included
CallPickRfds ==
    /\ pc = "start"
    /\ arg' \in NonObjects \cup {JUndef, EmptyObject}
    /\ sp' = pickRfds(arg')
    /\ pc' = "picked"
    /\ UNCHANGED <<src, doc, ret, ret2, stored, json, page,
                 lastIndex, hist, calls, proxyVars, playVars, formVars>>

Next == Render \/ LoadEffect \/ CallPickRfds

Spec == Init /\ [][Next]_vars

(* ResultsPage visited again and again over one instance of the module:   *)
(* the anchors are module-level objects and outlive the component          *)

InitRepeat ==
    /\ pc = "unmounted"
    /\ src = <<>> /\ doc = NoDoc /\ ret = <<>> /\ ret2 = <<>>
    /\ arg = JUndef /\ sp = NoPair
    /\ stored = "unread" /\ json = JNull /\ page = NotRendered
    /\ lastIndex = 0 /\ hist = {} /\ calls = 0
    /\ req = NoRequest /\ env = JUndef /\ locals = NoLocals /\ res = NoResponse
    /\ PlaygroundMounted /\ storage = NoEntry /\ tabs = 0
    /\ FormMounted

\* the page is visited and its effect puts the stored payload in json
Revisit ==
    /\ pc \in {"unmounted", "idle"}
    /\ calls < MaxRenders
    /\ stored' = "parsed"
    /\ json' \in RepeatPayloads
    /\ pc' = "loaded"
    /\ UNCHANGED <<src, doc, ret, ret2, arg, sp, page, lastIndex, hist, calls, proxyVars, playVars, formVars>>

\* the component function runs once more
Rerender ==
    /\ pc \in {"loaded", "idle"}
    /\ calls < MaxRenders
    /\ page' = render(json)
    /\ lastIndex' = lastIndexAfter(renderTests(json), lastIndex)
    /\ hist' = IF \E h \in hist : h.payload = json THEN hist
               ELSE hist \cup {[payload |-> json, page |-> page']}
    /\ calls' = calls + 1
    /\ pc' = "idle"
    /\ UNCHANGED <<src, doc, ret, ret2, arg, sp, stored, json, proxyVars, playVars, formVars>>

NextRepeat == Revisit \/ Rerender

SpecRepeat == InitRepeat /\ [][NextRepeat]_vars

(* POST /api/analyze: one action per stretch of the handler between awaits. *)
(* Whatever is thrown inside the try block is caught and answered with 500.  *)

textVars == <<src, doc, ret, ret2, arg, sp, stored, json, page,
              lastIndex, hist, calls>>

InitProxy ==
    /\ pc = "received"
    /\ src = <<>> /\ doc = NoDoc /\ ret = <<>> /\ ret2 = <<>>
    /\ arg = JUndef /\ sp = NoPair
    /\ stored = "unread" /\ json = JNull /\ page = NotRendered
    /\ lastIndex = 0 /\ hist = {} /\ calls = 0
    /\ req \in Requests /\ env \in Environments
    /\ locals = NoLocals /\ res = NoResponse
    /\ PlaygroundMounted /\ storage = NoEntry /\ tabs = 0
    /\ FormMounted

\* await req.formData() settles; on success the url is built and fetch called
ReadFormData ==
    /\ pc = "received"
    /\ IF req.form = NoForm
       THEN /\ locals' = [locals EXCEPT !.err = E_formData]
            /\ res' = errorResponse(E_formData)
            /\ pc' = "returned"
       ELSE /\ locals' = [locals EXCEPT !.fetch =
                             [sent |-> TRUE, url |-> urlOf(env, req),
                              method |-> "POST", body |-> req.form]]
            /\ res' = res
            /\ pc' = "fetching"
    /\ UNCHANGED <<req, env, textVars, playVars, formVars>>

\* await fetch(url, ...) settles; on success upstream.text() is called
FetchSettles ==
    /\ pc = "fetching"
    /\ \/ \E up \in UpstreamResponses :
              /\ locals' = [locals EXCEPT !.upstream = up]
              /\ res' = res
              /\ pc' = "reading"
       \/ \E err \in {E_fetch, E_bare} :
              /\ locals' = [locals EXCEPT !.err = err]
              /\ res' = errorResponse(err)
              /\ pc' = "returned"
    /\ UNCHANGED <<req, env, textVars, playVars, formVars>>

\* await upstream.text() settles; on success the response is built
TextSettles ==
    /\ pc = "reading"
    /\ \/ LET made == NextResponse(locals.upstream.body,
                                   locals.upstream.status,
                                   contentTypeOf(locals.upstream))
          IN  /\ locals' = [locals EXCEPT
                               !.text = JStr(locals.upstream.body),
                               !.err = made.threw]
              /\ res' = IF made.made THEN made ELSE errorResponse(made.threw)
       \/ /\ locals' = [locals EXCEPT !.err = E_text]
          /\ res' = errorResponse(E_text)
    /\ pc' = "returned"
    /\ UNCHANGED <<req, env, textVars, playVars, formVars>>

NextProxy == ReadFormData \/ FetchSettles \/ TextSettles

SpecProxy == InitProxy /\ [][NextProxy]_vars

(* PlaygroundPage: one action per event handler, timer callback or stretch  *)
(* of runDebate between awaits. The state updates of one such stretch are    *)
(* batched, so the state is observed after the stretch.                      *)

K_short == [i \in 1..15 |-> "k"]
K_ok == [i \in 1..16 |-> "k"]
KeyInputs == {<<>>, K_short, K_ok, <<SP>> \o K_ok \o <<SP>>,
              [i \in 1..16 |-> SP]}
Files == {[name |-> "debate.m4a"]}
OldEntries == {NoEntry, <<"{\"old\":1}">>}
MaxTabs == 1

\* what fetch settles with
Fetched ==
    [rejected : {TRUE}, message : {"Failed to fetch", ""}, ok : {FALSE},
     text : {""}, statusText : {""}, textFails : {FALSE}]
    \cup [rejected : {FALSE}, message : {""}, ok : {FALSE},
          text : {"", "boom", J_rfd}, statusText : {"", "Bad Gateway"},
          textFails : BOOLEAN]
    \cup [rejected : {FALSE}, message : {""}, ok : {TRUE},
          text : {J_rfd, J_rfdSpaced, J_null, J_html}, statusText : {"OK"},
          textFails : {FALSE}]
    \cup [rejected : {FALSE}, message : {""}, ok : {TRUE},
          text : {J_rfd}, statusText : {"OK"}, textFails : {TRUE}]

pageVars == <<pc, textVars, proxyVars, formVars>>

InitPlayground ==
    /\ pc = "playground"
    /\ src = <<>> /\ doc = NoDoc /\ ret = <<>> /\ ret2 = <<>>
    /\ arg = JUndef /\ sp = NoPair
    /\ stored = "unread" /\ json = JNull /\ page = NotRendered
    /\ lastIndex = 0 /\ hist = {} /\ calls = 0
    /\ req = NoRequest /\ env = JUndef /\ locals = NoLocals /\ res = NoResponse
    /\ PlaygroundMounted
    /\ storage \in OldEntries
    /\ tabs = 0
    /\ FormMounted

\* onChange of a key input: setApiKeys({ ...apiKeys, <key>: value.trim() })
TypeKey ==
    /\ step = 1
    /\ \E k \in {"assemblyai", "openrouter"}, value \in KeyInputs :
           apiKeys' = [apiKeys EXCEPT ![k] = trim(value)]
    /\ UNCHANGED <<step, file, job, progress, logs, lastResult, tickerRef,
                   stageTimers, intervals, timeouts, storage, inflight, tabs,
                   pageVars>>

\* the Next button: disabled={!canNext}, onClick={() => setStep(2)}
ClickNext ==
    /\ step = 1
    /\ canNext(apiKeys)
    /\ step' = 2
    /\ UNCHANGED <<file, apiKeys, job, progress, logs, lastResult, tickerRef,
                   stageTimers, intervals, timeouts, storage, inflight, tabs,
                   pageVars>>

\* handleFilePick / handleDrop with a file
PickFile ==
    /\ step = 2
    /\ file' \in Files
    /\ UNCHANGED <<step, apiKeys, job, progress, logs, lastResult, tickerRef,
                   stageTimers, intervals, timeouts, storage, inflight, tabs,
                   pageVars>>

\* the Run button (rendered while job !== "done", disabled while
\* !canAnalyze || job === "running") calls runDebate, which runs up to its
\* await: the reset, startTicker() and the call of postForm
ClickRun ==
    /\ step = 2
    /\ job # "done"
    /\ ~runDisabled(file, apiKeys, job)
    /\ IF file = JNull \/ ~canNext(apiKeys)
       THEN UNCHANGED <<job, progress, logs, lastResult, tickerRef,
                        stageTimers, intervals, timeouts, inflight>>
       ELSE LET ivs == clearedIntervals(tickerRef, intervals)
                tos == clearedTimeouts(stageTimers, timeouts)
                free == TimerIds \ usedIds(0, <<>>, ivs, tos)
                ids == sortedIds(free)
            IN  /\ Cardinality(free) > Len(Stages)
                /\ job' = "running"
                /\ progress' = 30
                /\ logs' = appendLog(<<>>, <<L_uploading>>)
                /\ lastResult' = JNull
                /\ stageTimers' = [i \in 1..Len(Stages) |-> ids[i]]
                /\ timeouts' = tos \cup
                       {[id |-> ids[i], line |-> Stages[i].line,
                         delay |-> Stages[i].delay] : i \in 1..Len(Stages)}
                /\ tickerRef' = ids[Len(Stages) + 1]
                /\ intervals' = ivs \cup {ids[Len(Stages) + 1]}
                /\ inflight' = inflight + 1
    /\ UNCHANGED <<step, file, apiKeys, storage, tabs, pageVars>>

\* the interval fires: setProgress(p => Math.min(p + inc, 89))
Tick ==
    /\ intervals # {}
    /\ progress' = tick(progress)
    /\ UNCHANGED <<step, file, apiKeys, job, logs, lastResult, tickerRef,
                   stageTimers, intervals, timeouts, storage, inflight, tabs,
                   pageVars>>

\* a stage timeout fires: appendLog(line). Timeouts set together fire in the
\* order of their delays.
StageFires ==
    /\ \E to \in timeouts :
           /\ \A other \in timeouts : to.delay <= other.delay
           /\ logs' = appendLog(logs, <<to.line>>)
           /\ timeouts' = timeouts \ {to}
    /\ UNCHANGED <<step, file, apiKeys, job, progress, lastResult, tickerRef,
                   stageTimers, intervals, storage, inflight, tabs, pageVars>>

\* postForm settles and runDebate runs to its end: stopTicker(true), the
\* 'Completed' line, localStorage.setItem (which throws when the quota is
\* exceeded), setLastResult, setJob("done"); or the catch block
SettleWith(fetched, quotaExceeded) ==
    /\ inflight > 0
    /\ inflight' = inflight - 1
    /\ tickerRef' = 0
    /\ stageTimers' = <<>>
    /\ intervals' = clearedIntervals(tickerRef, intervals)
    /\ timeouts' = clearedTimeouts(stageTimers, timeouts)
    /\ LET r == postForm(fetched)
               completed == appendLog(logs, <<L_completed>>)
           IN  IF r.threw
               THEN /\ job' = "error"
                    /\ progress' = 0
                    /\ logs' = appendLog(logs, errorLine(messageOf(r.message)))
                    /\ UNCHANGED <<lastResult, storage>>
               ELSE IF quotaExceeded
               THEN /\ job' = "error"
                    /\ progress' = 0
                    /\ logs' = appendLog(completed,
                                   errorLine(messageOf("QuotaExceededError")))
                    /\ UNCHANGED <<lastResult, storage>>
               ELSE /\ storage' = <<jsonStringify(r.data)>>
                    /\ lastResult' = r.data
                    /\ job' = "done"
                    /\ progress' = 1000
                    /\ logs' = completed
    /\ UNCHANGED <<step, file, apiKeys, tabs, pageVars>>

Settle ==
    \E fetched \in Fetched, quotaExceeded \in BOOLEAN :
        SettleWith(fetched, quotaExceeded)

\* the View Results button (rendered while job === "done"):
\* window.open("/results", "_blank", ...), which opens a tab or is blocked
OpenResultsInNewTab ==
    /\ step = 2
    /\ job = "done"
    /\ tabs < MaxTabs
    /\ tabs' \in {tabs, tabs + 1}
    /\ UNCHANGED <<step, file, apiKeys, job, progress, logs, lastResult,
                   tickerRef, stageTimers, intervals, timeouts, storage,
                   inflight, pageVars>>

NextPlayground ==
    \/ TypeKey \/ ClickNext \/ PickFile \/ ClickRun
    \/ Tick \/ StageFires \/ Settle \/ OpenResultsInNewTab

SpecPlayground == InitPlayground /\ [][NextPlayground]_vars

\* the playground while the server response does not arrive and the 500 ms
\* interval keeps firing
NextWaiting ==
    TypeKey \/ ClickNext \/ PickFile \/ ClickRun \/ Tick \/ StageFires

SpecWaiting == InitPlayground /\ [][NextWaiting]_vars /\ WF_vars(Tick)

(* AnalyzeForm: one action per event handler and per stretch of            *)
(* simulateAnalysis between awaits                                          *)

FormKeyInputs == {<<>>, <<"s", "k">>}
MaxErrorLogs == 2

otherVars == <<pc, textVars, proxyVars, step, job, progress, lastResult,
               tickerRef, stageTimers, intervals, timeouts, storage,
               inflight, tabs>>

InitForm ==
    /\ pc = "analyze form"
    /\ src = <<>> /\ doc = NoDoc /\ ret = <<>> /\ ret2 = <<>>
    /\ arg = JUndef /\ sp = NoPair
    /\ stored = "unread" /\ json = JNull /\ page = NotRendered
    /\ lastIndex = 0 /\ hist = {} /\ calls = 0
    /\ req = NoRequest /\ env = JUndef /\ locals = NoLocals /\ res = NoResponse
    /\ step = 1 /\ job = "idle" /\ progress = 0 /\ lastResult = JNull
    /\ tickerRef = 0 /\ stageTimers = <<>>
    /\ intervals = {} /\ timeouts = {} /\ inflight = 0
    /\ storage = NoEntry /\ tabs = 0
    /\ file = JNull /\ apiKeys = NoFormKeys /\ logs = <<>>
    /\ FormMounted

\* onDrop with a file; the drop zone is rendered while no file is chosen
OnDrop ==
    /\ route = "/analyze"
    /\ file = JNull
    /\ file' \in Files
    /\ UNCHANGED <<apiKeys, logs, formVars, otherVars>>

\* removeFile
RemoveFile ==
    /\ route = "/analyze"
    /\ file # JNull
    /\ file' = JNull
    /\ UNCHANGED <<apiKeys, logs, formVars, otherVars>>

\* onChange of a key input: setApiKeys(prev => ({ ...prev, <key>: value }))
FormTypeKey ==
    /\ route = "/analyze"
    /\ \E k \in {"openai", "huggingface", "openrouter"},
          value \in FormKeyInputs :
           apiKeys' = [apiKeys EXCEPT ![k] = value]
    /\ UNCHANGED <<file, logs, formVars, otherVars>>

\* the form is submitted: handleSubmit, and simulateAnalysis up to its
\* first await
HandleSubmit ==
    /\ route = "/analyze"
    /\ ~submitDisabled(isAnalyzing)
    /\ IF submitError(file, apiKeys) # ""
       THEN /\ Len(logs) < MaxErrorLogs
            /\ logs' = Append(logs, newLog(submitError(file, apiKeys),
                                           "error"))
            /\ UNCHANGED formVars
       ELSE /\ isAnalyzing' = TRUE
            /\ judgingProgress' = 0
            /\ deliveryProgress' = 0
            /\ logs' = <<newLog("Starting analysis...", "info"),
                         newLog("Uploading audio file...", "info")>>
            /\ sims' = Append(sims, [loop |-> "judging", i |-> 0])
            /\ route' = route
    /\ UNCHANGED <<file, apiKeys, otherVars>>

\* the 200 ms timer of the judging loop resolves: setJudgingProgress(i), the
\* line for i, i += 10, and after the loop the 'complete' line and the
\* start of the delivery loop
JudgingStep ==
    /\ \E n \in 1..Len(sims) :
           /\ sims[n].loop = "judging"
           /\ judgingProgress' = sims[n].i
           /\ IF sims[n].i + 10 <= 100
              THEN /\ logs' = logs \o judgingLine(sims[n].i)
                   /\ sims' = [sims EXCEPT ![n].i = @ + 10]
              ELSE /\ logs' = logs \o judgingLine(sims[n].i)
                              \o <<newLog(L_judgingDone, "success")>>
                   /\ sims' = [sims EXCEPT ![n] =
                                  [loop |-> "delivery", i |-> 0]]
    /\ UNCHANGED <<file, apiKeys, isAnalyzing, deliveryProgress, route,
                   otherVars>>

\* the 150 ms timer of the delivery loop resolves: setDeliveryProgress(i),
\* the line for i, i += 15, and after the loop the two closing lines and
\* the timer of the redirect
DeliveryStep ==
    /\ \E n \in 1..Len(sims) :
           /\ sims[n].loop = "delivery"
           /\ deliveryProgress' = sims[n].i
           /\ IF sims[n].i + 15 <= 100
              THEN /\ logs' = logs \o deliveryLine(sims[n].i)
                   /\ sims' = [sims EXCEPT ![n].i = @ + 15]
              ELSE /\ logs' = logs \o deliveryLine(sims[n].i)
                              \o <<newLog(L_deliveryDone, "success"),
                                   newLog("Analysis finished! Redirecting to results...",
                                          "success")>>
                   /\ sims' = [sims EXCEPT ![n].loop = "redirecting"]
    /\ UNCHANGED <<file, apiKeys, isAnalyzing, judgingProgress, route,
                   otherVars>>

\* the 2000 ms timer fires: router.push("/results")
Redirect ==
    /\ \E n \in 1..Len(sims) :
           /\ sims[n].loop = "redirecting"
           /\ sims' = [sims EXCEPT ![n].loop = "returned"]
    /\ route' = "/results"
    /\ UNCHANGED <<file, apiKeys, logs, isAnalyzing, judgingProgress,
                   deliveryProgress, otherVars>>

NextForm ==
    \/ OnDrop \/ RemoveFile \/ FormTypeKey \/ HandleSubmit
    \/ JudgingStep \/ DeliveryStep \/ Redirect

SpecForm == InitForm /\ [][NextForm]_vars

-----------------------------------------------------------------------------
(* Claims *)

Has(s, c) == \E i \in 1..Len(s) : s[i] = c
Count(s, c) == Cardinality({i \in 1..Len(s) : s[i] = c})
IsPrefix(p, s) == Len(p) <= Len(s) /\ Take(s, Len(p)) = p
\* number of places of s where the string p starts
CountSub(s, p) == Cardinality({i \in 1..Len(s) : IsPrefix(p, Drop(s, i - 1))})
AllBlank(s) == \A i \in 1..Len(s) : s[i] \in WhiteSpace

OwnTags == {T_p, T_pEnd, T_h3, T_h3End}
Entity(c) == IF c = "&" THEN E_amp ELSE IF c = "<" THEN E_lt ELSE E_gt

\* every '<' of s opens one of the formatter's own tags, no '>' stands
\* outside such a tag, and every '&' starts one of the three entities
RECURSIVE OnlyOwnMarkup(_)
OnlyOwnMarkup(s) ==
    IF Len(s) = 0 THEN TRUE
    ELSE IF s[1] = "<"
    THEN \E tg \in OwnTags : IsPrefix(tg, s) /\ OnlyOwnMarkup(Drop(s, Len(tg)))
    ELSE IF s[1] = ">" THEN FALSE
    ELSE IF s[1] = "&"
    THEN \E c \in {"&", "<", ">"} :
             IsPrefix(Entity(c), s) /\ OnlyOwnMarkup(Drop(s, Len(Entity(c))))
    ELSE OnlyOwnMarkup(Tail(s))

\* C1: the HTML both formatters return holds no raw '&', '<' or '>' of the
\* input: the only '<' and '>' are those of the formatter's own tags, every
\* '&' starts &amp; &lt; or &gt;, and there are no more entities of a kind
\* than the input has characters of that kind (exactly as many in
\* toVerbalHTML, which drops nothing but white space).
C1_InputEscaped ==
    pc \in {"sectioned", "verbal"} =>
        /\ OnlyOwnMarkup(ret)
        /\ \A c \in {"&", "<", ">"} :
               /\ CountSub(ret, Entity(c)) <= Count(src, c)
               /\ pc = "verbal" => CountSub(ret, Entity(c)) = Count(src, c)

\* a heading and a paragraph with '<' and '&' went through toSectionedHTML
C1_Witness ==
    /\ pc = "sectioned"
    /\ Has(src, "<") /\ Has(src, "&")
    /\ CountSub(ret, T_h3) = 1
    /\ CountSub(ret, T_p) = 1
    /\ CountSub(ret, E_lt) = 1 /\ CountSub(ret, E_amp) = 1

\* C2: for the empty text and for every text of white space only, both
\* formatters return exactly <p>Not provided.</p>.
C2_BlankGivesSentinel ==
    (pc \in {"sectioned", "verbal"} /\ AllBlank(src)) => ret = NotProvided

\* C3: for a payload that is null, undefined, no object, an empty object or
\* an object without any of the known keys, pickRfds does not throw and
\* returns '' twice; and the page shows the "no formatted feedback" card
\* exactly when both returned sections are empty (and the two cards
\* otherwise).
LacksKnownKeys(x) ==
    x.t # "object" \/ \A k \in Keys : x.f[k].t = "undefined"

Rendered == pc \in {"mounted", "idle"}
RenderedStored == pc = "idle" /\ stored = "parsed"

C3_NothingToPick ==
    /\ (pc = "picked" /\ LacksKnownKeys(arg)) => sp = NoPair
    /\ (RenderedStored /\ LacksKnownKeys(json)) =>
           /\ ~page.crashed
           /\ page.verbal = <<>> /\ page.written = <<>>
    /\ (Rendered /\ ~page.crashed) =>
           /\ page.noFeedbackCard <=>
                  (page.verbal = <<>> /\ page.written = <<>>)
           /\ page.cards <=> ~page.noFeedbackCard

\* pickRfds was called with null and returned two empty sections
C3_Witness ==
    /\ pc = "picked"
    /\ arg.t = "null"
    /\ ~sp.threw /\ sp.verbal = <<>> /\ sp.written = <<>>

\* C4: a non-string value (number, boolean, array, object) in a verbal
\* alias, a written alias, an rfd field or flowNotes does not make pickRfds
\* throw and counts as the empty string: the page is the one the payload
\* with '' in place of every such value gives.
NonString(x) == x.t \in {"number", "boolean", "array", "object"}

TextKeys == Keys \ {"judgeAnalysis", "judge_feedback", "feedback"}

\* fields with every non-string text value replaced by ''
Emptied(f) ==
    [k \in Keys |->
        IF k \in TextKeys /\ NonString(f[k]) THEN JStr(<<>>) ELSE f[k]]

EmptiedPayload(x) ==
    IF x.t # "object" THEN x
    ELSE [x EXCEPT !.f =
            [k \in Keys |->
                IF k \notin TextKeys /\ x.f[k].t = "object"
                THEN [x.f[k] EXCEPT !.f = Emptied(x.f[k].f)]
                ELSE Emptied(x.f)[k]]]

C4_NonStringIsEmpty ==
    (RenderedStored /\ EmptiedPayload(json) # json) =>
        /\ ~page.crashed
        /\ page = render(EmptiedPayload(json))

\* C5: when a verbal alias (nested or top level) holds a non-empty string
\* without a written anchor, pickRfds returns the normalized value of the
\* first such alias as verbal, and written comes from the written aliases
\* and the flowNotes fallback alone.
WrapperOf(j) ==
    coalesce(<<get(j, "judgeAnalysis"), get(j, "judge_feedback"),
               get(j, "feedback")>>, EmptyObject)

VerbalAliases(j) ==
    <<get(WrapperOf(j), "verbalRfd"), get(WrapperOf(j), "verbal_rfd"),
      get(j, "verbalRfd"), get(j, "verbal_rfd")>>

WrittenAliases(j) ==
    <<get(WrapperOf(j), "writtenRfd"), get(WrapperOf(j), "written_rfd"),
      get(j, "writtenRfd"), get(j, "written_rfd")>>

\* the strings among xs that are not empty
RECURSIVE Texts(_)
Texts(xs) ==
    IF Len(xs) = 0 THEN <<>>
    ELSE (IF isString(xs[1]) /\ Len(xs[1].v) > 0 THEN <<xs[1].v>> ELSE <<>>)
         \o Texts(Tail(xs))

\* written by the aliases and the flowNotes fallback alone
WrittenByFallback(j) ==
    LET w == Texts(WrittenAliases(j))
    IN  IF Len(w) > 0 /\ Len(trim(w[1])) > 0 THEN normalize(w[1])
        ELSE IF isString(get(j, "flowNotes"))
        THEN normalize(get(j, "flowNotes").v)
        ELSE <<>>

C5_ExplicitVerbalWins ==
    (/\ RenderedStored
     /\ json.t = "object"
     /\ Len(Texts(VerbalAliases(json))) > 0
     /\ ~testWritten(Texts(VerbalAliases(json))[1])) =>
        /\ ~page.crashed
        /\ page.verbal = normalize(Texts(VerbalAliases(json))[1])
        /\ page.written = WrittenByFallback(json)

\* C6: with both verbal aliases empty and a written field that is itself
\* the combined blob, verbal is the text before the WRITTEN anchor and
\* written is the text after it, anchor removed: the verbal text is not
\* left inside written.
C6_WrittenBlobIsSplit ==
    (/\ RenderedStored
     /\ json.t = "object"
     /\ \A i \in 1..4 : ~truthy(VerbalAliases(json)[i])
     /\ ~truthy(get(WrapperOf(json), "rfd"))
     /\ Len(Texts(WrittenAliases(json))) > 0
     /\ coalesce(WrittenAliases(json), JUndef) =
            JStr(Texts(WrittenAliases(json))[1])
     /\ testWritten(Texts(WrittenAliases(json))[1])) =>
        LET s == normalize(Texts(WrittenAliases(json))[1])
            w == searchWritten(s)
        IN  /\ ~page.crashed
            /\ page.verbal = trim(Take(s, w - 1))
            /\ page.written = trim(Drop(s, matchWritten(s, w) - 1))

\* C7: a blob with a WRITTEN and a VERBAL anchor, in either order and any
\* number of times, is split at the first WRITTEN anchor.
BothAnchors(s) == searchWritten(s) # 0 /\ searchVerbal(s) # 0

\* the text after the first WRITTEN anchor of s, that occurrence removed
AfterFirstWritten(s) ==
    trim(Drop(s, matchWritten(s, searchWritten(s)) - 1))

\* the text before the first WRITTEN anchor of s, the first VERBAL anchor
\* in it removed
BeforeFirstWritten(s) ==
    LET before == Take(s, searchWritten(s) - 1)
        v == searchVerbal(before)
    IN  IF v = 0 THEN trim(before)
        ELSE trim(Take(before, v - 1)
                  \o Drop(before, matchVerbal(before, v) - 1))

\* C7, as amended: written is the trimmed text after the first WRITTEN
\* anchor with that one occurrence removed, and verbal is the trimmed text
\* before it with its first VERBAL anchor removed; later occurrences of
\* either anchor stay in the sections.
C7_SplitAtFirstWritten ==
    (pc = "split" /\ BothAnchors(normalize(src))) =>
        /\ sp.written = AfterFirstWritten(normalize(src))
        /\ sp.verbal = BeforeFirstWritten(normalize(src))

\* C7, as claimed: and neither returned section holds an anchor label
C7_NoAnchorLeft ==
    (pc = "split" /\ BothAnchors(normalize(src))) =>
        /\ sp.written = AfterFirstWritten(normalize(src))
        /\ sp.verbal = BeforeFirstWritten(normalize(src))
        /\ searchVerbal(sp.verbal) = 0 /\ searchWritten(sp.verbal) = 0
        /\ searchVerbal(sp.written) = 0 /\ searchWritten(sp.written) = 0

\* a blob "Verbal RFD: .. Written RFD: .." was split into two non-empty
\* sections, the verbal label stripped
C7_Witness ==
    /\ pc = "split"
    /\ BothAnchors(normalize(src))
    /\ searchVerbal(normalize(src)) < searchWritten(normalize(src))
    /\ Len(sp.verbal) > 0 /\ Len(sp.written) > 0
    /\ searchVerbal(sp.verbal) = 0

\* C8: for the payload { rfd: '<summary> Written RFD: Aff Constructive:
\* <detail>' } pickRfds gives verbal = '<summary>' and written =
\* 'Aff Constructive: <detail>', and the written HTML is the heading
\* 'Aff Constructive' followed by the detail as its paragraph.
S_affConstructive == <<"A","f","f",SP,"C","o","n","s","t","r","u","c","t","i","v","e">>

C8_BlobHeadingAndDetail ==
    (RenderedStored /\ json = JObj("rfd" :> JStr(S_blob))) =>
        /\ ~page.crashed
        /\ page.verbal = S_ok
        /\ page.written = S_affConstructive \o <<":", SP>> \o S_detail
        /\ page.writtenHTML =
               T_h3 \o S_affConstructive \o T_h3End \o <<NL>>
               \o T_p \o S_detail \o T_pEnd

\* C9: a text of heading lines, each followed by its body lines, becomes,
\* in order, one h3 per heading (the heading without its colon) followed by
\* one p holding the body; a paragraph before a heading comes before its h3.
Paragraph(body) == T_p \o esc(join(body, <<SP>>)) \o T_pEnd

ExpectedBlocks(d) ==
    (IF Len(d.preface) = 0 THEN <<>> ELSE <<Paragraph(d.preface)>>)
    \o concat([i \in 1..Len(d.sections) |->
          <<T_h3 \o Take(d.sections[i].heading,
                         Len(d.sections[i].heading) - 1) \o T_h3End,
            Paragraph(d.sections[i].body)>>])

C9_HeadingsAndBodies ==
    (pc = "sectioned" /\ doc # NoDoc) => ret = join(ExpectedBlocks(doc), <<NL>>)

\* an opening paragraph and two sections were rendered
C9_Witness ==
    /\ pc = "sectioned"
    /\ Len(doc.sections) = 2
    /\ Len(doc.preface) > 0
    /\ CountSub(ret, T_h3) = 2
    /\ CountSub(ret, T_p) = 3

\* C10: normalize is idempotent: normalizing the result of normalize again
\* returns that result, for every text (carriage returns, runs of '*',
\* blanks before newlines and runs of newlines included).
C10_NormalizeIdempotent ==
    pc = "renormalized" => ret2 = ret

\* a text with a carriage return between two stars and a newline was
\* normalized twice, and the first pass changed it
C10_Witness ==
    /\ pc = "renormalized"
    /\ \E i \in 1..(Len(src) - 2) :
           src[i] = "*" /\ src[i + 1] = CR /\ src[i + 2] = "*"
    /\ Has(src, NL)
    /\ ret # src
    /\ Len(ret) > 0

\* C11: extraction is deterministic and free of side effects: however often
\* and after whatever other payloads a payload is rendered, pickRfds and
\* the formatters give the page its first render gave, and the module-level
\* anchor keeps its state (lastIndex stays 0); the payload is only read.
C11_SameResultEveryCall ==
    (pc = "idle" /\ calls > 0) =>
        /\ \A h \in hist : h.payload = json => h.page = page
        /\ \A h \in hist : h.page = render(h.payload)
        /\ lastIndex = 0

\* a payload whose written field holds the anchor was rendered, and again
\* after another payload
C11_Witness ==
    /\ pc = "idle"
    /\ calls = MaxRenders
    /\ Cardinality(hist) = 2
    /\ json = JObj("writtenRfd" :> JStr(S_blob))
    /\ page.cards

Pos(s, c) == IF Has(s, c) THEN Least({i \in 1..Len(s) : s[i] = c}) ELSE 0

NoParse == <<"no parse">>

\* what follows the element open .. close that s starts with, its text free
\* of '<' and '>'; NoParse when s does not start with such an element
ElementRest(s, open, close) ==
    IF ~IsPrefix(open, s) THEN NoParse
    ELSE With(Drop(s, Len(open)), LAMBDA r :
         With(Pos(r, "<"), LAMBDA k :
             IF k = 0 THEN NoParse
             ELSE IF ~IsPrefix(close, Drop(r, k - 1)) THEN NoParse
             ELSE IF Has(Take(r, k - 1), ">") THEN NoParse
             ELSE Drop(r, k - 1 + Len(close))))

P_element == [open |-> T_p, close |-> T_pEnd]
H3_element == [open |-> T_h3, close |-> T_h3End]

\* s is one element of tags, or several with one newline between them
RECURSIVE IsBlocks(_, _)
IsBlocks(s, tags) ==
    \E tg \in tags :
        With(ElementRest(s, tg.open, tg.close), LAMBDA r :
            /\ r # NoParse
            /\ \/ Len(r) = 0
               \/ r[1] = NL /\ IsBlocks(Tail(r), tags))

\* C12: what toSectionedHTML returns is a sequence of blocks joined by
\* newlines, each one p element or one h3 element, and what toVerbalHTML
\* returns is such a sequence of p elements; no other tag occurs.
C12_OnlyBlocks ==
    /\ pc = "sectioned" =>
           (Len(ret) = 0 \/ IsBlocks(ret, {P_element, H3_element}))
    /\ pc = "verbal" => (Len(ret) = 0 \/ IsBlocks(ret, {P_element}))

\* a paragraph, a heading and a paragraph with '<' in it were returned
C12_Witness ==
    /\ pc = "sectioned"
    /\ CountSub(ret, T_h3) = 1
    /\ CountSub(ret, T_p) = 2
    /\ Has(src, "<")

\* `written` as pickRfds holds it before the last resort: the first written
\* alias, or the written part of the split when the split was made and the
\* alias is falsy
WrittenBeforeLastResort(j) ==
    LET v == coalesce(VerbalAliases(j), JStr(<<>>))
        w == coalesce(WrittenAliases(j), JStr(<<>>))
        combined == combinedOf(j, WrapperOf(j), w)
    IN  IF blank(v) /\ Len(combined) > 0 /\ ~truthy(w)
        THEN JStr(splitCombinedBlob(combined).written)
        ELSE w

\* the alias lookup and the split went through and left written falsy or
\* a string of white space, and flowNotes is a string
FlowNotesIsLastResort(j) ==
    /\ j.t = "object"
    /\ isString(get(j, "flowNotes"))
    /\ LET v == coalesce(VerbalAliases(j), JStr(<<>>))
       IN  ~truthy(v) \/ isString(v)
    /\ LET w == WrittenBeforeLastResort(j)
       IN  ~truthy(w) \/ (isString(w) /\ Len(trim(w.v)) = 0)

WithoutFlowNotes(j) == [j EXCEPT !.f["flowNotes"] = JUndef]

\* C13, as amended: when written is still empty or blank after the alias
\* lookup and the split and flowNotes is a string, pickRfds returns
\* normalize(flowNotes) as written (bold markers removed, trimmed), not the
\* string as it is; a flowNotes that is no string (a list) is never used:
\* the page is the one the payload without flowNotes gives.
C13_FlowNotesNormalized ==
    (RenderedStored /\ json.t = "object") =>
        /\ FlowNotesIsLastResort(json) =>
               /\ ~page.crashed
               /\ page.written = normalize(get(json, "flowNotes").v)
        /\ NonString(get(json, "flowNotes")) =>
               page = render(WithoutFlowNotes(json))

\* C13, as claimed: the flowNotes string is returned verbatim as written
C13_FlowNotesVerbatim ==
    (RenderedStored /\ json.t = "object") =>
        /\ FlowNotesIsLastResort(json) =>
               /\ ~page.crashed
               /\ page.written = get(json, "flowNotes").v
        /\ NonString(get(json, "flowNotes")) =>
               page = render(WithoutFlowNotes(json))

\* a blank writtenRfd and the flow notes '**Hi.** ': written is 'Hi.'
C13_Witness ==
    /\ RenderedStored
    /\ json = JObj(("writtenRfd" :> JStr(<<SP>>)) @@ ("flowNotes" :> JStr(S_bold)))
    /\ page.written = S_hi
    /\ page.cards

\* C14: esc is the identity on text without '&', '<' and '>': escaping
\* such a text returns it unchanged.
C14_EscIdentity ==
    (/\ pc = "escaped"
     /\ ~Has(src, "&") /\ ~Has(src, "<") /\ ~Has(src, ">")) => ret = src

\* a text with a quote and a heading, and none of the three characters
C14_Witness ==
    /\ pc = "escaped"
    /\ ~Has(src, "&") /\ ~Has(src, "<") /\ ~Has(src, ">")
    /\ Has(src, "\"") /\ Has(src, ":") /\ Has(src, NL)
    /\ ret = src

\* C15: when the normalized blob holds no WRITTEN anchor, splitCombinedBlob
\* returns, with a VERBAL anchor in it, verbal = the whole normalized text
\* with the anchor label (its first occurrence) taken out, trimmed, and
\* written = ''; and without one, verbal = '' and written = the whole
\* normalized text.
C15_NoWrittenAnchor ==
    (pc = "split" /\ searchWritten(normalize(src)) = 0) =>
        LET s == normalize(src)
            v == searchVerbal(s)
        IN  IF v # 0
            THEN /\ sp.verbal =
                        trim(Take(s, v - 1) \o Drop(s, matchVerbal(s, v) - 1))
                 /\ sp.written = <<>>
            ELSE /\ sp.verbal = <<>>
                 /\ sp.written = s

\* 'verbal rfd' in the middle of a text without WRITTEN anchor was taken out
C15_Witness ==
    /\ pc = "split"
    /\ searchWritten(normalize(src)) = 0
    /\ searchVerbal(normalize(src)) > 1
    /\ Len(sp.verbal) > 0 /\ Len(sp.verbal) < Len(normalize(src)) - 9
    /\ sp.written = <<>>

\* C16: what normalize returns holds no carriage return, no '**', no space
\* or tab right before a newline, no three newlines in a row, and no white
\* space at its start or end.
C16_NormalForm ==
    pc \in {"normalized", "renormalized"} =>
        /\ ~Has(ret, CR)
        /\ \A i \in 1..(Len(ret) - 1) :
               /\ ~(ret[i] = "*" /\ ret[i + 1] = "*")
               /\ ~(ret[i] \in {SP, TAB} /\ ret[i + 1] = NL)
        /\ \A i \in 1..(Len(ret) - 2) :
               ~(ret[i] = NL /\ ret[i + 1] = NL /\ ret[i + 2] = NL)
        /\ Len(ret) > 0 =>
               (ret[1] \notin WhiteSpace /\ ret[Len(ret)] \notin WhiteSpace)

\* three newlines between two characters were brought down to two
C16_Witness ==
    /\ pc = "normalized"
    /\ Count(src, NL) = 3
    /\ Len(ret) = 4
    /\ Count(ret, NL) = 2

\* the p element of a run of lines, none for no lines
Paragraphs(body) == IF Len(body) = 0 THEN <<>> ELSE <<Paragraph(body)>>

\* C17: in toSectionedHTML a line that is a 'Verbal RFD:' label or a
\* WRITTEN-anchor label on its own gives no output but ends the paragraph:
\* the lines before it and the lines after it come out as two p elements.
C17_LabelLineDropped ==
    pc = "sectioned" =>
        \A b \in LabelBefores, l \in Labels, a \in LabelAfters :
            src = labelText(b, l, a) =>
                ret = join(Paragraphs(b) \o Paragraphs(a), <<NL>>)

\* two lines, the long 'written rfd and ... flow analysis:' label, one line
C17_Witness ==
    /\ pc = "sectioned"
    /\ src = labelText(<<B_x, B_affirm>>,
                       <<SP>> \o F_writtenFlow \o <<":",SP>>, <<B_affirm>>)
    /\ CountSub(ret, T_p) = 2
    /\ CountSub(ret, L_flow) = 0

\* the runs of consecutive lines that are not blank, in order
RECURSIVE LineGroups(_, _)
LineGroups(lines, cur) ==
    LET closed == IF Len(cur) = 0 THEN <<>> ELSE <<cur>>
    IN  IF Len(lines) = 0 THEN closed
        ELSE IF Head(lines) \in {<<>>, <<SP>>}
        THEN closed \o LineGroups(Tail(lines), <<>>)
        ELSE LineGroups(Tail(lines), Append(cur, Head(lines)))

\* a plain line as it shows in its paragraph: trimmed, each run of two or
\* more white-space characters one space, a single tab as it is
ShownLine(line) ==
    IF line = P_wide THEN <<"a", SP, "b">> ELSE line

\* a plain line with every white-space run, a single tab too, one space
ShownLineSpaced(line) ==
    IF line \in {P_wide, P_tab} THEN <<"a", SP, "b">> ELSE line

\* one p per run of lines, the lines joined by single spaces
JoinedParagraphs(groups, Shown(_)) ==
    join([i \in 1..Len(groups) |->
             T_p \o join([k \in 1..Len(groups[i]) |-> Shown(groups[i][k])],
                         <<SP>>) \o T_pEnd],
         <<NL>>)

\* the lines of the text are plain or blank lines
ParaText == Len(src) > 0 /\ \A i \in 1..Len(splitLines(src)) :
                               splitLines(src)[i] \in ParaLines

\* C18 (as amended): in toSectionedHTML consecutive plain lines are trimmed
\* and joined with single spaces into one p element, every run of two or
\* more white-space characters inside it one space and a single white-space
\* character kept as it is; a blank line or the end of the text closes the
\* paragraph, blank lines emit nothing, and no p element is ever empty.
C18_ParagraphsJoined ==
    pc = "sectioned" =>
        /\ CountSub(ret, T_p \o T_pEnd) = 0
        /\ ParaText =>
               ret = JoinedParagraphs(LineGroups(splitLines(src), <<>>),
                                      ShownLine)

\* C18 (as stated): as above, but every white-space run inside a paragraph,
\* a single tab too, is one space.
C18_EveryRunOneSpace ==
    (pc = "sectioned" /\ ParaText) =>
        ret = JoinedParagraphs(LineGroups(splitLines(src), <<>>),
                               ShownLineSpaced)

\* two lines, the second with runs of spaces, a blank line, one line: two
\* paragraphs
C18_Witness ==
    /\ pc = "sectioned"
    /\ splitLines(src) = <<B_x, P_wide, <<SP>>, B_x>>
    /\ ret = T_p \o <<"x", SP, "a", SP, "b">> \o T_pEnd \o <<NL>>
             \o T_p \o <<"x">> \o T_pEnd

\* position i of s lies in a run of two or more newlines
InNewlineRun(s, i) ==
    /\ s[i] = NL
    /\ \/ i > 1 /\ s[i - 1] = NL
       \/ i < Len(s) /\ s[i + 1] = NL

\* the maximal chunks of s between runs of two or more newlines, from i on
RECURSIVE Chunks(_, _)
Chunks(s, i) ==
    IF i > Len(s) THEN <<>>
    ELSE IF InNewlineRun(s, i) THEN Chunks(s, i + 1)
    ELSE LET e == Least({j \in i..Len(s) :
                            j = Len(s) \/ InNewlineRun(s, j + 1)})
         IN  <<SubSeq(s, i, e)>> \o Chunks(s, e + 1)

\* the chunks that are not empty once trimmed
Kept(chunks) == SelectSeq(chunks, LAMBDA c : Len(trim(c)) > 0)

\* C19: for a non-empty text toVerbalHTML returns one p element per maximal
\* chunk between runs of two or more newlines, in order, each holding the
\* escaped and trimmed chunk, joined by single newlines; a chunk that is
\* empty once trimmed gives no element, and no heading element is produced.
C19_ParagraphPerChunk ==
    (pc = "verbal" /\ Len(src) > 0) =>
        /\ ret = join([i \in 1..Len(Kept(Chunks(src, 1))) |->
                          T_p \o trim(esc(Kept(Chunks(src, 1))[i])) \o T_pEnd],
                      <<NL>>)
        /\ CountSub(ret, <<"<", "h">>) = 0

\* an opening paragraph and two sections, two newlines apart: three p
\* elements, the heading lines inside them
C19_Witness ==
    /\ pc = "verbal"
    /\ doc # NoDoc
    /\ doc.gap = 2
    /\ Len(doc.preface) > 0
    /\ Len(doc.sections) = 2
    /\ Len(Chunks(src, 1)) = 3
    /\ CountSub(ret, T_p) = 3
    /\ CountSub(ret, doc.sections[1].heading) = 1

\* a chunk of blanks after a chunk of two lines gives no element
C19_WitnessBlank ==
    /\ pc = "verbal"
    /\ Chunks(src, 1) = <<B_x \o <<NL>> \o P_wide, <<SP>>>>
    /\ ret = T_p \o B_x \o <<NL>> \o Take(P_wide, Len(P_wide) - 1) \o T_pEnd

\* C20: the /api/analyze proxy forwards the uploaded form to the backend
\* path /analyze/<type>, type taken from the query string and 'speech' when
\* it has none; it returns the upstream body with the upstream status as it
\* is, a status outside 2xx too; and it answers 500 with a JSON {error} body
\* of its own only when reading the request or calling the backend threw.
C20_ProxyTransparent ==
    /\ locals.fetch.sent =>
           /\ locals.fetch.url =
                  (IF truthy(env) THEN env.v ELSE DefaultBackend)
                  \o S_analyze
                  \o (IF req.type = JNull THEN S_speech ELSE req.type.v)
           /\ locals.fetch.method = "POST"
           /\ locals.fetch.body = req.form
    /\ (pc = "returned" /\ locals.text # JUndef) =>
           /\ res.status = locals.upstream.status
           /\ res.body = locals.upstream.body
    /\ (pc = "returned" /\ locals.err # NoError) =>
           /\ locals.err \in {E_formData, E_fetch, E_bare, E_text}
           /\ res.status = 500
           /\ IsPrefix(<<"{\"error\":\"">>, res.body)

\* the part of C20 that holds: the form is forwarded to /analyze/<type>, and
\* an upstream answer whose status allows a body comes back as it is
C20_ForwardedAndReturned ==
    /\ locals.fetch.sent =>
           /\ locals.fetch.url =
                  (IF truthy(env) THEN env.v ELSE DefaultBackend)
                  \o S_analyze
                  \o (IF req.type = JNull THEN S_speech ELSE req.type.v)
           /\ locals.fetch.body = req.form
    /\ (pc = "returned" /\ locals.text # JUndef
        /\ locals.upstream.status \notin NullBodyStatus) =>
           /\ res.status = locals.upstream.status
           /\ res.body = locals.upstream.body

\* C21: while the job is 'running' progress is between 3 and 89 and never
\* decreases; progress is 100 only once the server response has been
\* received successfully (the job is 'done', the result kept and stored),
\* and it becomes 100 only in the step in which the request settles.
C21_ProgressWhileRunning ==
    /\ [](job = "running" => (progress >= 30 /\ progress <= 890))
    /\ [][(job = "running" /\ job' = "running") => progress' >= progress]_vars
    /\ [](progress = 1000 =>
             (job = "done" /\ inflight = 0 /\ storage # NoEntry
              /\ storage = <<jsonStringify(lastResult)>>))
    /\ [][(progress # 1000 /\ progress' = 1000) =>
              (job = "running" /\ inflight' = inflight - 1)]_vars

\* the ticker has brought progress to 89 and every staged line is logged
C21_Witness ==
    /\ job = "running"
    /\ progress = 890
    /\ Len(logs) = 1 + Len(Stages)

\* the response has arrived and progress is 100
C21_WitnessDone ==
    /\ job = "done"
    /\ progress = 1000
    /\ lastResult = V_rfd

\* the increment the file header and startTicker give for a progress value
StatedInc(p) ==
    CASE p < 550 -> 16
      [] p >= 550 /\ p < 720 -> 11
      [] p >= 720 /\ p < 820 -> 7
      [] p >= 820 /\ p < 890 -> 4
      [] OTHER -> 0

\* C22: while the response does not arrive and the ticker keeps firing,
\* progress strictly increases on every tick, by 1.6 below 55, 1.1 below
\* 72, 0.7 below 82 and 0.4 below 89, never past 89, until it is exactly 89,
\* and then it stays 89: it stalls at no lower value.
C22_ReachesCap ==
    /\ [][(job = "running" /\ job' = "running" /\ progress' # progress) =>
              /\ progress' > progress
              /\ progress' = (IF progress + StatedInc(progress) < 890
                              THEN progress + StatedInc(progress) ELSE 890)]_vars
    /\ [](ENABLED <<Tick>>_vars <=> (job = "running" /\ progress < 890))
    /\ (job = "running") ~> (progress = 890)
    /\ [][(job = "running" /\ progress = 890) => progress' = 890]_vars

\* progress is 89 while the request is still in flight
C22_Witness ==
    /\ job = "running"
    /\ inflight = 1
    /\ progress = 890
    /\ intervals # {}

\* C23: a request is started only when the job is 'idle' or 'error', a file
\* is chosen and both API keys are at least 16 characters long; while the
\* job is 'running' exactly one request is in flight and no second one is
\* issued; a job that is 'done' never leaves 'done'; and viewing the
\* results only opens a tab: it starts no request and changes nothing else.
C23_OneRequest ==
    /\ [](inflight <= 1 /\ (job = "running" <=> inflight = 1))
    /\ [][inflight' > inflight =>
              /\ job \in {"idle", "error"}
              /\ job' = "running"
              /\ file # JNull
              /\ Len(apiKeys.assemblyai) >= 16
              /\ Len(apiKeys.openrouter) >= 16]_vars
    /\ [][job = "done" => job' = "done"]_vars
    /\ [][tabs' # tabs =>
              (job = "done" /\ UNCHANGED <<step, file, apiKeys, job, progress,
                                           logs, lastResult, tickerRef,
                                           stageTimers, intervals, timeouts,
                                           storage, inflight>>)]_vars

\* a request is in flight
C23_Witness ==
    /\ job = "running"
    /\ inflight = 1
    /\ file \in Files
    /\ canNext(apiKeys)

\* the results have been opened in a new tab
C23_WitnessViewed ==
    /\ job = "done"
    /\ tabs = 1
    /\ inflight = 0

\* the last line of the console
LastLine == logs[Len(logs)]

\* C24: once runDebate has settled, every stage timeout and the progress
\* interval are cancelled: after the 'Completed' or 'Error: ...' line no
\* staged line is appended and the ticker changes progress no more; and the
\* timers that are set are always those of the current run (one interval,
\* the stage timeouts kept in stageTimers), so a new run leaves none of an
\* earlier run behind.
C24_TimersCancelled ==
    /\ [](job # "running" => (intervals = {} /\ timeouts = {}))
    /\ [](job = "done" => LastLine = <<L_completed>>)
    /\ [](job = "error" => LastLine[1] = "Error: ")
    /\ [][(job \in {"done", "error"} /\ job' = job) =>
              (logs' = logs /\ progress' = progress)]_vars
    /\ [](/\ intervals \subseteq {tickerRef}
          /\ \A to \in timeouts :
                 \E i \in 1..Len(stageTimers) :
                     /\ stageTimers[i] = to.id
                     /\ Stages[i].line = to.line
          /\ Cardinality(timeouts) <= Len(Stages))

\* the request failed before any stage timeout had fired, and none is left
C24_Witness ==
    /\ job = "error"
    /\ Len(logs) = 2
    /\ logs[1] = <<L_uploading>>
    /\ timeouts = {}
    /\ intervals = {}

\* a run has just started: its four stage timeouts are set
C24_WitnessStarted ==
    /\ job = "running"
    /\ tickerRef # 0
    /\ Cardinality(timeouts) = Len(Stages)
    /\ Len(logs) = 1

\* the request failed: a network error, a status outside 2xx, or a body
\* that cannot be read or parsed
Failed(fetched) ==
    \/ fetched.rejected
    \/ ~fetched.ok
    \/ fetched.textFails
    \/ fetched.text \notin {J_rfd, J_rfdSpaced, J_null}

\* C25: when the request fails the job ends in 'error' with progress 0 and
\* an 'Error: ...' line last in the console, lastResult is null and the
\* stored 'vocius_last_result' entry is as it was; the entry is written
\* only in the step in which a successful response arrives and the job
\* goes from 'running' to 'done'.
C25_FailureLeavesEntry ==
    /\ [][\A f \in Fetched, q \in BOOLEAN :
              (Failed(f) /\ SettleWith(f, q)) =>
                  /\ job' = "error"
                  /\ progress' = 0
                  /\ logs'[Len(logs')][1] = "Error: "
                  /\ lastResult' = JNull
                  /\ storage' = storage]_vars
    /\ [][storage' # storage =>
              /\ job = "running" /\ job' = "done"
              /\ storage' = <<jsonStringify(lastResult')>>
              /\ \E f \in Fetched : ~Failed(f) /\ SettleWith(f, FALSE)]_vars

\* the backend answered 502 and the entry of an earlier session is kept
C25_Witness ==
    /\ job = "error"
    /\ progress = 0
    /\ LastLine = errorLine("Bad Gateway")
    /\ lastResult = JNull
    /\ storage = <<"{\"old\":1}">>

\* the blocks of an HTML string, and what the p and the h3 blocks hold
BlocksOf(html) ==
    LET nl == {i \in 1..Len(html) : html[i] = NL}
        nth(k) == CHOOSE i \in nl : Cardinality({j \in nl : j < i}) = k - 1
        first(k) == IF k = 1 THEN 1 ELSE nth(k - 1) + 1
        last(k) == IF k = Cardinality(nl) + 1 THEN Len(html) ELSE nth(k) - 1
    IN  IF Len(html) = 0 THEN <<>>
        ELSE [k \in 1..(Cardinality(nl) + 1) |->
                 SubSeq(html, first(k), last(k))]
Inside(block, open, close) ==
    SubSeq(block, Len(open) + 1, Len(block) - Len(close))
PContents(html) ==
    LET ps == SelectSeq(BlocksOf(html), LAMBDA b : IsPrefix(T_p, b))
    IN  [i \in 1..Len(ps) |-> Inside(ps[i], T_p, T_pEnd)]
H3Contents(html) ==
    LET hs == SelectSeq(BlocksOf(html), LAMBDA b : IsPrefix(T_h3, b))
    IN  [i \in 1..Len(hs) |-> Inside(hs[i], T_h3, T_h3End)]

\* the whole line is a heading label ending in ':': it starts as one, and
\* its only colon is its last character
HeadingLabel(line) ==
    /\ HEADING(line)
    /\ Count(line, ":") = 1
    /\ line[Len(line)] = ":"

\* the line consists solely of a 'Verbal RFD:' or 'Written RFD...' label
LabelOnly(line) ==
    verbalLabel(line) \/ matchWritten(line, 1) = Len(line) + 1

\* the lines of a text that hold content, trimmed
ContentLines(text) ==
    LET ls == splitLines(text)
        trimmed == [i \in 1..Len(ls) |-> trim(ls[i])]
    IN  SelectSeq(trimmed, LAMBDA l :
            Len(l) > 0 /\ ~HeadingLabel(l) /\ ~LabelOnly(l))

\* C26: toSectionedHTML loses no content: the text of every non-blank line
\* that is neither a heading line nor solely a 'Verbal RFD:' or 'Written
\* RFD...' label is, escaped and its white space collapsed, in exactly one
\* p element, in the order of the lines: the p elements read one after the
\* other are the content lines read one after the other.
C26_NoContentLost ==
    (pc = "sectioned" /\ Len(src) > 0) =>
        join(PContents(ret), <<SP>>) =
            join([i \in 1..Len(ContentLines(src)) |->
                     collapseSpaces(esc(ContentLines(src)[i]))], <<SP>>)

\* C27: every h3 element toSectionedHTML emits holds exactly a heading
\* label without its colon: a line becomes a heading only when the whole
\* line is such a label ending in ':', and text after the colon on the
\* same line is never inside the heading.
C27_HeadingIsWholeLabel ==
    pc = "sectioned" =>
        \A i \in 1..Len(H3Contents(ret)) :
            HeadingLabel(H3Contents(ret)[i] \o <<":">>)

\* C28: each non-empty section pickRfds returns is rendered to at least one
\* block: the HTML of a non-empty verbal or written section is not empty,
\* so when the page has something to show neither card holds empty markup.
C28_SectionsRendered ==
    (Rendered /\ ~page.crashed) =>
        /\ Len(page.verbal) > 0 => Len(page.verbalHTML) > 0
        /\ Len(page.written) > 0 => Len(page.writtenHTML) > 0
        /\ page.cards =>
               (Len(page.verbalHTML) > 0 /\ Len(page.writtenHTML) > 0)

\* the log holds an entry with this message
Logged(message) == \E n \in 1..Len(logs) : logs[n].message = message

\* C29: simulateAnalysis runs the two bars one after the other and to the
\* end: deliveryProgress is 0 until judgingProgress has reached 100,
\* judgingProgress is 100 when 'Judging analysis complete!' is logged,
\* deliveryProgress is 100 when 'Delivery analysis complete!' is logged,
\* and neither value decreases during a run.
C29_BothBarsComplete ==
    /\ [](deliveryProgress > 0 => judgingProgress = 100)
    /\ [](Logged(L_judgingDone) => judgingProgress = 100)
    /\ [](Logged(L_deliveryDone) => deliveryProgress = 100)
    /\ [][isAnalyzing =>
            /\ judgingProgress' >= judgingProgress
            /\ deliveryProgress' >= deliveryProgress]_vars

\* the delivery loop has ended: its closing line is logged
C29_DeliveryDone == Logged(L_deliveryDone) /\ deliveryProgress = 90

\* the refused submit: one more entry, of type error
Refused ==
    /\ Len(logs') = Len(logs) + 1
    /\ logs'[Len(logs')].type = "error"

\* C30: handleSubmit starts the simulation only with a file and three
\* non-empty keys; otherwise it appends one error entry and leaves
\* isAnalyzing, both progress values and the file as they are; once the
\* analysis has started the submit button stays disabled, and no second
\* simulateAnalysis runs beside the first.
C30_SubmitGuarded ==
    /\ [][Len(sims') > Len(sims) =>
            /\ file # JNull
            /\ apiKeys.openai # <<>> /\ apiKeys.huggingface # <<>>
            /\ apiKeys.openrouter # <<>>]_vars
    /\ [][(Len(sims') = Len(sims) /\ logs' # logs /\ ~isAnalyzing) =>
            /\ Refused
            /\ SubSeq(logs', 1, Len(logs)) = logs
            /\ submitError(file, apiKeys) # ""
            /\ UNCHANGED <<isAnalyzing, judgingProgress, deliveryProgress,
                           file>>]_vars
    /\ [][isAnalyzing => isAnalyzing']_vars
    /\ [](Len(sims) <= 1)

\* the one analysis runs, started with a file and three keys, and has
\* reached its second loop
C30_Witness ==
    /\ isAnalyzing /\ Len(sims) = 1 /\ sims[1].loop = "delivery"
    /\ file # JNull /\ submitError(file, apiKeys) = ""

\* a submit was refused twice, once for each reason
C30_WitnessRefused ==
    /\ ~isAnalyzing /\ sims = <<>> /\ Len(logs) = 2
    /\ logs[1].message = "Please upload an audio file first"
    /\ logs[2].message = "Please provide all required API keys"
    /\ judgingProgress = 0 /\ deliveryProgress = 0

=============================================================================
